---- MODULE Spec2Model ----
(***************************************************************************)
(* A model of the QP_Tools Blender add-on: the duplicate-data cleanup      *)
(* operators of CleanUp.py, the registration bookkeeping of                *)
(* module_helper.py and the modules' register()/unregister() functions,    *)
(* the background workers of quick_asset_library.py and updater.py, and    *)
(* the asset cache loader of asset_cache.py.                               *)
(***************************************************************************)
EXTENDS Integers, Sequences, FiniteSets, Bags, TLC

\* Number of datablocks in the collection a cleanup operator works on.
MaxItems == 3

VARIABLES
    \* ---- CleanUp.py ----
    dtype,              \* DATA_TYPE of the cleanup operator class in use
    data,               \* bpy.data.<collection>: sequence of datablocks
    users,              \* the consumers that hold a reference to a datablock
    phase,              \* "idle" | "dialog" (props dialog of the operator open)
    has_conflicts,      \* operator property
    conflicts,          \* operator property: sequence of conflict items
    global_resolution,  \* operator property
    sel,                \* _conflict_selections[DATA_TYPE]
    \* history of the cleanup operators, for the properties
    stale,              \* keys of sel recorded by an earlier invocation
    priorSel,           \* sel was non-empty when the current invocation began
    lastExec,           \* the execution path that ran last ("none" before)
    pre,                \* data when the last execution began
    preUsers,           \* users when the last execution began
    preSel,             \* sel when the last execution began
    preConflicts,       \* conflicts when the last execution began
    log,                \* the remove() calls of the last execution
    selRead,            \* the last execution read _conflict_selections
    staleAtRead,        \* the stale keys present at that read
    \* ---- module_helper.py ----
    mods,               \* sys.modules: module name -> the module's attributes
    call,               \* the last ModuleManager call, with the state before it
    \* ---- __init__.py and the modules' register()/unregister() ----
    addon_state,        \* "initial" | "registered" | "unregistered"
    prefs,              \* the *_enabled properties of QP_Tools_Preferences
    toggles,            \* number of qp.toggle_module executions so far
    bl_classes,         \* the add-on's classes registered with bpy.utils
    bl_handlers,        \* <<handler list, function>> pairs in bpy.app.handlers
    bl_props,           \* <<type, property>> pairs defined on bpy.types
    bl_menus,           \* <<menu, draw function>> pairs appended to menus
    register_calls,     \* history: the modules whose register() the last add-on
                        \* register() called
    prefs_at_register,  \* history: prefs when the last add-on register() ran
    \* ---- updater.py, quick_asset_library.py: threads and timers ----
    _update_state,          \* updater._update_state
    _manual_check,          \* updater._manual_check
    _pending_timer,         \* updater._pending_timer is not None
    _progress_timer_running,
    timers,                 \* the functions registered with bpy.app.timers:
                            \* a bag, one copy for each registration
    threads,                \* the worker threads that are running
    spawned,                \* number of threads started so far
    _file_scan_status,      \* quick_asset_library._file_scan_status
    _file_scan_cache,       \* quick_asset_library._file_scan_cache
    file_mtime,             \* os.path.getmtime of the library files
    online_access,          \* bpy.app.online_access
    api_calls,              \* history: the API calls made, by thread
    main_pc,                \* the timer function the main thread is inside of
    updater_state_json,     \* updater_state.json in the configuration directory
    check_log,              \* history: the last _do_check that found a newer version,
                            \* with the dismissed version that it writes back
    \* ---- quick_asset_library.py: the background Blender process ----
    status_file,        \* quickasset_status.json in the temp directory
    proc,               \* per start: the subprocess, "none", "running" or "exited"
    child,              \* per start: the background script's position and pending write
    start_ok,           \* what the last start_background_process returned
    starts,             \* number of start_background_process calls so far
    \* ---- asset_cache.py: the asset cache file ----
    cache_file,         \* assets_cache.json: missing, unreadable, or its text
    cache_call,         \* the last load_asset_cache call: "none", "returned", "raised"
    cache,              \* what the last load_asset_cache call returned
    \* ---- FloatingPanel.py: the modal operator qp.floating_panel ----
    panel_op,           \* the QP_OT_FloatingPanel instances, the windows' screens
    \* ---- MaterialList.py: the materials of node groups ----
    ng_edges,           \* <<g, h>>: a group node of node group g has node_tree h
    ng_named,           \* the edges whose group node has 'material' in its name
    _node_group_materials_cache, \* node group name -> materials and timestamp
    now,                \* time.time(), in ticks
    last_find           \* history: the last top-level call and what it returned

cleanVars == <<dtype, data, users, phase, has_conflicts, conflicts,
               global_resolution, sel, stale, priorSel, lastExec, pre,
               preUsers, preSel, preConflicts, log, selRead, staleAtRead>>

modVars == <<mods, call>>

addonVars == <<addon_state, prefs, toggles, bl_classes, bl_handlers, bl_props,
               bl_menus, register_calls, prefs_at_register>>

workerVars == <<_update_state, _manual_check, _pending_timer,
                _progress_timer_running, timers, threads, spawned,
                _file_scan_status, _file_scan_cache, file_mtime, online_access,
                api_calls, main_pc, updater_state_json,
                check_log>>

bgVars == <<status_file, proc, child, start_ok, starts>>

cacheVars == <<cache_file, cache_call, cache>>

panelVars == <<panel_op>>

matVars == <<ng_edges, ng_named, _node_group_materials_cache, now, last_find>>

vars == <<cleanVars, modVars, addonVars, workerVars, bgVars, cacheVars, panelVars, matVars>>

\* The variables the cleanup operators never touch, and those the
\* ModuleManager calls and the add-on's registration never touch.
nonCleanVars == <<modVars, addonVars, workerVars, bgVars, cacheVars, panelVars, matVars>>

nonModVars == <<cleanVars, addonVars, workerVars, bgVars, cacheVars, panelVars, matVars>>

nonAddonVars == <<cleanVars, call, workerVars, bgVars, cacheVars, panelVars, matVars>>

nonWorkerVars == <<cleanVars, modVars, addonVars, bgVars, cacheVars, panelVars, matVars>>

\* The background process shares bpy.app.timers with the updater.
nonBgMainVars == <<cleanVars, modVars, addonVars, _update_state, _manual_check,
                   _pending_timer, _progress_timer_running, threads, spawned,
                   _file_scan_status, _file_scan_cache, file_mtime,
                   online_access, api_calls,
                   updater_state_json, check_log, cacheVars, panelVars, matVars>>

nonBgVars == <<nonBgMainVars, main_pc>>

nonCacheVars == <<cleanVars, modVars, addonVars, workerVars, bgVars, panelVars, matVars>>

nonPanelVars == <<cleanVars, modVars, addonVars, workerVars, bgVars, cacheVars, matVars>>

nonMatVars == <<cleanVars, modVars, addonVars, workerVars, bgVars, cacheVars, panelVars>>

(***************************************************************************)
(* Generic helpers                                                         *)
(***************************************************************************)
Range(s) == {s[i] : i \in DOMAIN s}

Count(s, x) == Cardinality({i \in DOMAIN s : s[i] = x})

\* sorted(a) == sorted(b) for two Python lists: the same elements with the
\* same multiplicities.
SortedEqual(a, b) ==
    /\ Len(a) = Len(b)
    /\ \A x \in Range(a) \cup Range(b) : Count(a, x) = Count(b, x)

RECURSIVE Flatten(_)
Flatten(ss) == IF ss = <<>> THEN <<>> ELSE Head(ss) \o Flatten(Tail(ss))

(***************************************************************************)
(* CleanUp.py: core utilities                                              *)
(***************************************************************************)
\* A name is a sequence of characters. An ASCII character is the string of
\* that character; any other character is the string "U+" followed by its
\* code point in hexadecimal.
\* The characters \d matches in a str pattern (Unicode category Nd), one row
\* per script, each row in the order of the values 0..9 that int() gives.
DecimalDigits ==
    << <<"0", "1", "2", "3", "4", "5", "6", "7", "8", "9">>,
       <<"U+0660", "U+0661", "U+0662", "U+0663", "U+0664", "U+0665", "U+0666", "U+0667", "U+0668", "U+0669">>,
       <<"U+06F0", "U+06F1", "U+06F2", "U+06F3", "U+06F4", "U+06F5", "U+06F6", "U+06F7", "U+06F8", "U+06F9">>,
       <<"U+07C0", "U+07C1", "U+07C2", "U+07C3", "U+07C4", "U+07C5", "U+07C6", "U+07C7", "U+07C8", "U+07C9">>,
       <<"U+0966", "U+0967", "U+0968", "U+0969", "U+096A", "U+096B", "U+096C", "U+096D", "U+096E", "U+096F">>,
       <<"U+09E6", "U+09E7", "U+09E8", "U+09E9", "U+09EA", "U+09EB", "U+09EC", "U+09ED", "U+09EE", "U+09EF">>,
       <<"U+0A66", "U+0A67", "U+0A68", "U+0A69", "U+0A6A", "U+0A6B", "U+0A6C", "U+0A6D", "U+0A6E", "U+0A6F">>,
       <<"U+0AE6", "U+0AE7", "U+0AE8", "U+0AE9", "U+0AEA", "U+0AEB", "U+0AEC", "U+0AED", "U+0AEE", "U+0AEF">>,
       <<"U+0B66", "U+0B67", "U+0B68", "U+0B69", "U+0B6A", "U+0B6B", "U+0B6C", "U+0B6D", "U+0B6E", "U+0B6F">>,
       <<"U+0BE6", "U+0BE7", "U+0BE8", "U+0BE9", "U+0BEA", "U+0BEB", "U+0BEC", "U+0BED", "U+0BEE", "U+0BEF">>,
       <<"U+0C66", "U+0C67", "U+0C68", "U+0C69", "U+0C6A", "U+0C6B", "U+0C6C", "U+0C6D", "U+0C6E", "U+0C6F">>,
       <<"U+0CE6", "U+0CE7", "U+0CE8", "U+0CE9", "U+0CEA", "U+0CEB", "U+0CEC", "U+0CED", "U+0CEE", "U+0CEF">>,
       <<"U+0D66", "U+0D67", "U+0D68", "U+0D69", "U+0D6A", "U+0D6B", "U+0D6C", "U+0D6D", "U+0D6E", "U+0D6F">>,
       <<"U+0DE6", "U+0DE7", "U+0DE8", "U+0DE9", "U+0DEA", "U+0DEB", "U+0DEC", "U+0DED", "U+0DEE", "U+0DEF">>,
       <<"U+0E50", "U+0E51", "U+0E52", "U+0E53", "U+0E54", "U+0E55", "U+0E56", "U+0E57", "U+0E58", "U+0E59">>,
       <<"U+0ED0", "U+0ED1", "U+0ED2", "U+0ED3", "U+0ED4", "U+0ED5", "U+0ED6", "U+0ED7", "U+0ED8", "U+0ED9">>,
       <<"U+0F20", "U+0F21", "U+0F22", "U+0F23", "U+0F24", "U+0F25", "U+0F26", "U+0F27", "U+0F28", "U+0F29">>,
       <<"U+1040", "U+1041", "U+1042", "U+1043", "U+1044", "U+1045", "U+1046", "U+1047", "U+1048", "U+1049">>,
       <<"U+1090", "U+1091", "U+1092", "U+1093", "U+1094", "U+1095", "U+1096", "U+1097", "U+1098", "U+1099">>,
       <<"U+17E0", "U+17E1", "U+17E2", "U+17E3", "U+17E4", "U+17E5", "U+17E6", "U+17E7", "U+17E8", "U+17E9">>,
       <<"U+1810", "U+1811", "U+1812", "U+1813", "U+1814", "U+1815", "U+1816", "U+1817", "U+1818", "U+1819">>,
       <<"U+1946", "U+1947", "U+1948", "U+1949", "U+194A", "U+194B", "U+194C", "U+194D", "U+194E", "U+194F">>,
       <<"U+19D0", "U+19D1", "U+19D2", "U+19D3", "U+19D4", "U+19D5", "U+19D6", "U+19D7", "U+19D8", "U+19D9">>,
       <<"U+1A80", "U+1A81", "U+1A82", "U+1A83", "U+1A84", "U+1A85", "U+1A86", "U+1A87", "U+1A88", "U+1A89">>,
       <<"U+1A90", "U+1A91", "U+1A92", "U+1A93", "U+1A94", "U+1A95", "U+1A96", "U+1A97", "U+1A98", "U+1A99">>,
       <<"U+1B50", "U+1B51", "U+1B52", "U+1B53", "U+1B54", "U+1B55", "U+1B56", "U+1B57", "U+1B58", "U+1B59">>,
       <<"U+1BB0", "U+1BB1", "U+1BB2", "U+1BB3", "U+1BB4", "U+1BB5", "U+1BB6", "U+1BB7", "U+1BB8", "U+1BB9">>,
       <<"U+1C40", "U+1C41", "U+1C42", "U+1C43", "U+1C44", "U+1C45", "U+1C46", "U+1C47", "U+1C48", "U+1C49">>,
       <<"U+1C50", "U+1C51", "U+1C52", "U+1C53", "U+1C54", "U+1C55", "U+1C56", "U+1C57", "U+1C58", "U+1C59">>,
       <<"U+A620", "U+A621", "U+A622", "U+A623", "U+A624", "U+A625", "U+A626", "U+A627", "U+A628", "U+A629">>,
       <<"U+A8D0", "U+A8D1", "U+A8D2", "U+A8D3", "U+A8D4", "U+A8D5", "U+A8D6", "U+A8D7", "U+A8D8", "U+A8D9">>,
       <<"U+A900", "U+A901", "U+A902", "U+A903", "U+A904", "U+A905", "U+A906", "U+A907", "U+A908", "U+A909">>,
       <<"U+A9D0", "U+A9D1", "U+A9D2", "U+A9D3", "U+A9D4", "U+A9D5", "U+A9D6", "U+A9D7", "U+A9D8", "U+A9D9">>,
       <<"U+A9F0", "U+A9F1", "U+A9F2", "U+A9F3", "U+A9F4", "U+A9F5", "U+A9F6", "U+A9F7", "U+A9F8", "U+A9F9">>,
       <<"U+AA50", "U+AA51", "U+AA52", "U+AA53", "U+AA54", "U+AA55", "U+AA56", "U+AA57", "U+AA58", "U+AA59">>,
       <<"U+ABF0", "U+ABF1", "U+ABF2", "U+ABF3", "U+ABF4", "U+ABF5", "U+ABF6", "U+ABF7", "U+ABF8", "U+ABF9">>,
       <<"U+FF10", "U+FF11", "U+FF12", "U+FF13", "U+FF14", "U+FF15", "U+FF16", "U+FF17", "U+FF18", "U+FF19">>,
       <<"U+104A0", "U+104A1", "U+104A2", "U+104A3", "U+104A4", "U+104A5", "U+104A6", "U+104A7", "U+104A8", "U+104A9">>,
       <<"U+10D30", "U+10D31", "U+10D32", "U+10D33", "U+10D34", "U+10D35", "U+10D36", "U+10D37", "U+10D38", "U+10D39">>,
       <<"U+11066", "U+11067", "U+11068", "U+11069", "U+1106A", "U+1106B", "U+1106C", "U+1106D", "U+1106E", "U+1106F">>,
       <<"U+110F0", "U+110F1", "U+110F2", "U+110F3", "U+110F4", "U+110F5", "U+110F6", "U+110F7", "U+110F8", "U+110F9">>,
       <<"U+11136", "U+11137", "U+11138", "U+11139", "U+1113A", "U+1113B", "U+1113C", "U+1113D", "U+1113E", "U+1113F">>,
       <<"U+111D0", "U+111D1", "U+111D2", "U+111D3", "U+111D4", "U+111D5", "U+111D6", "U+111D7", "U+111D8", "U+111D9">>,
       <<"U+112F0", "U+112F1", "U+112F2", "U+112F3", "U+112F4", "U+112F5", "U+112F6", "U+112F7", "U+112F8", "U+112F9">>,
       <<"U+11450", "U+11451", "U+11452", "U+11453", "U+11454", "U+11455", "U+11456", "U+11457", "U+11458", "U+11459">>,
       <<"U+114D0", "U+114D1", "U+114D2", "U+114D3", "U+114D4", "U+114D5", "U+114D6", "U+114D7", "U+114D8", "U+114D9">>,
       <<"U+11650", "U+11651", "U+11652", "U+11653", "U+11654", "U+11655", "U+11656", "U+11657", "U+11658", "U+11659">>,
       <<"U+116C0", "U+116C1", "U+116C2", "U+116C3", "U+116C4", "U+116C5", "U+116C6", "U+116C7", "U+116C8", "U+116C9">>,
       <<"U+11730", "U+11731", "U+11732", "U+11733", "U+11734", "U+11735", "U+11736", "U+11737", "U+11738", "U+11739">>,
       <<"U+118E0", "U+118E1", "U+118E2", "U+118E3", "U+118E4", "U+118E5", "U+118E6", "U+118E7", "U+118E8", "U+118E9">>,
       <<"U+11950", "U+11951", "U+11952", "U+11953", "U+11954", "U+11955", "U+11956", "U+11957", "U+11958", "U+11959">>,
       <<"U+11C50", "U+11C51", "U+11C52", "U+11C53", "U+11C54", "U+11C55", "U+11C56", "U+11C57", "U+11C58", "U+11C59">>,
       <<"U+11D50", "U+11D51", "U+11D52", "U+11D53", "U+11D54", "U+11D55", "U+11D56", "U+11D57", "U+11D58", "U+11D59">>,
       <<"U+11DA0", "U+11DA1", "U+11DA2", "U+11DA3", "U+11DA4", "U+11DA5", "U+11DA6", "U+11DA7", "U+11DA8", "U+11DA9">>,
       <<"U+16A60", "U+16A61", "U+16A62", "U+16A63", "U+16A64", "U+16A65", "U+16A66", "U+16A67", "U+16A68", "U+16A69">>,
       <<"U+16AC0", "U+16AC1", "U+16AC2", "U+16AC3", "U+16AC4", "U+16AC5", "U+16AC6", "U+16AC7", "U+16AC8", "U+16AC9">>,
       <<"U+16B50", "U+16B51", "U+16B52", "U+16B53", "U+16B54", "U+16B55", "U+16B56", "U+16B57", "U+16B58", "U+16B59">>,
       <<"U+1D7CE", "U+1D7CF", "U+1D7D0", "U+1D7D1", "U+1D7D2", "U+1D7D3", "U+1D7D4", "U+1D7D5", "U+1D7D6", "U+1D7D7">>,
       <<"U+1D7D8", "U+1D7D9", "U+1D7DA", "U+1D7DB", "U+1D7DC", "U+1D7DD", "U+1D7DE", "U+1D7DF", "U+1D7E0", "U+1D7E1">>,
       <<"U+1D7E2", "U+1D7E3", "U+1D7E4", "U+1D7E5", "U+1D7E6", "U+1D7E7", "U+1D7E8", "U+1D7E9", "U+1D7EA", "U+1D7EB">>,
       <<"U+1D7EC", "U+1D7ED", "U+1D7EE", "U+1D7EF", "U+1D7F0", "U+1D7F1", "U+1D7F2", "U+1D7F3", "U+1D7F4", "U+1D7F5">>,
       <<"U+1D7F6", "U+1D7F7", "U+1D7F8", "U+1D7F9", "U+1D7FA", "U+1D7FB", "U+1D7FC", "U+1D7FD", "U+1D7FE", "U+1D7FF">>,
       <<"U+1E140", "U+1E141", "U+1E142", "U+1E143", "U+1E144", "U+1E145", "U+1E146", "U+1E147", "U+1E148", "U+1E149">>,
       <<"U+1E2F0", "U+1E2F1", "U+1E2F2", "U+1E2F3", "U+1E2F4", "U+1E2F5", "U+1E2F6", "U+1E2F7", "U+1E2F8", "U+1E2F9">>,
       <<"U+1E950", "U+1E951", "U+1E952", "U+1E953", "U+1E954", "U+1E955", "U+1E956", "U+1E957", "U+1E958", "U+1E959">>,
       <<"U+1FBF0", "U+1FBF1", "U+1FBF2", "U+1FBF3", "U+1FBF4", "U+1FBF5", "U+1FBF6", "U+1FBF7", "U+1FBF8", "U+1FBF9">> >>

Digits == UNION {Range(DecimalDigits[r]) : r \in DOMAIN DecimalDigits}

DigitVal ==
    [c \in Digits |->
        (CHOOSE i \in 1..10 : \E r \in DOMAIN DecimalDigits : DecimalDigits[r][i] = c) - 1]

\* re.match(r'^(.+?)\.(\d{3})$', name), then 1 <= int(group 2) <= 999.
\* '$' matches at the end and before a newline that ends the string; '.'
\* matches every character but a newline.
get_base_name(name) ==
    LET m == IF name # <<>> /\ name[Len(name)] = "\n"
             THEN SubSeq(name, 1, Len(name) - 1) ELSE name
        n == Len(m)
    IN  IF /\ n >= 5
           /\ m[n - 3] = "."
           /\ m[n - 2] \in Digits /\ m[n - 1] \in Digits /\ m[n] \in Digits
           /\ \A k \in 1..(n - 4) : m[k] # "\n"
           /\ LET v == 100 * DigitVal[m[n - 2]] + 10 * DigitVal[m[n - 1]]
                       + DigitVal[m[n]]
              IN  1 <= v /\ v <= 999
        THEN SubSeq(m, 1, n - 4)
        ELSE name

is_linked_data_never(d) == FALSE

\* data_block.library is not None
is_linked_data(d) == d.lib # 0

are_materials_identical(m1, m2) ==
    IF m1.use_nodes # m2.use_nodes THEN FALSE
    ELSE IF ~m1.use_nodes
         THEN /\ m1.diffuse_color = m2.diffuse_color
              /\ m1.metallic = m2.metallic
              /\ m1.roughness = m2.roughness
    ELSE IF ~m1.node_tree.exists \/ ~m2.node_tree.exists
         THEN m1.node_tree.exists = m2.node_tree.exists
    ELSE /\ Len(m1.node_tree.nodes) = Len(m2.node_tree.nodes)
         /\ SortedEqual(m1.node_tree.nodes, m2.node_tree.nodes)

\* The Blender 4.0+ branch (ng.interface.items_tree); bl_info asks for 4.2.
are_node_groups_identical(g1, g2) ==
    IF Len(g1.nodes) # Len(g2.nodes) THEN FALSE
    ELSE IF g1.links # g2.links THEN FALSE
    ELSE IF Len(g1.inputs) # Len(g2.inputs) \/ Len(g1.outputs) # Len(g2.outputs)
         THEN FALSE
    ELSE IF ~SortedEqual(g1.inputs, g2.inputs) \/ ~SortedEqual(g1.outputs, g2.outputs)
         THEN FALSE
    ELSE SortedEqual(g1.nodes, g2.nodes)

\* A file path is its prefix (kind) and its components: "abs" is a path that
\* starts with one slash, "rel" one that starts with Blender's "//", "plain"
\* one that starts with no slash, and "none" the empty string.
\* bpy.path.abspath(p) if not os.path.isabs(p) else p: os.path.isabs holds of
\* every path that starts with a slash, "//" included, and bpy.path.abspath
\* changes a path only when it starts with "//"; so no path is changed.
AbsComps(fp) == fp

\* The loop of posixpath.normpath over the components; rooted when the path
\* has initial slashes.
RECURSIVE NormComps(_, _, _)
NormComps(done, rest, rooted) ==
    IF rest = <<>> THEN done
    ELSE IF Head(rest) \in {"", "."} THEN NormComps(done, Tail(rest), rooted)
    ELSE IF \/ Head(rest) # ".."
            \/ (~rooted /\ done = <<>>)
            \/ (done # <<>> /\ done[Len(done)] = "..")
         THEN NormComps(Append(done, Head(rest)), Tail(rest), rooted)
    ELSE IF done # <<>>
         THEN NormComps(SubSeq(done, 1, Len(done) - 1), Tail(rest), rooted)
    ELSE NormComps(done, Tail(rest), rooted)

\* The number of empty components a path's components begin with.
RECURSIVE LeadingEmpty(_)
LeadingEmpty(comps) ==
    IF comps = <<>> \/ Head(comps) # "" THEN 0
    ELSE 1 + LeadingEmpty(Tail(comps))

\* The number of slashes a path begins with: those of its prefix and one
\* after each empty component that another component follows.
LeadingSlashes(fp) ==
    LET k == LeadingEmpty(fp.comps)
        n == Len(fp.comps)
    IN  (CASE fp.kind = "abs" -> 1 [] fp.kind = "rel" -> 2 [] OTHER -> 0)
            + (IF k < n THEN k ELSE IF n = 0 THEN 0 ELSE n - 1)

\* os.path.normpath: exactly two initial slashes are kept, three or more
\* become one, and an empty result is ".".
normpath(fp) ==
    LET slashes == LeadingSlashes(fp)
        comps   == NormComps(<<>>, fp.comps, slashes > 0)
    IN  [kind  |-> IF slashes = 0 THEN "plain"
                   ELSE IF slashes = 2 THEN "rel" ELSE "abs",
         comps |-> IF slashes = 0 /\ comps = <<>> THEN <<".">> ELSE comps]

are_images_identical(i1, i2) ==
    IF i1.filepath.kind = "none" /\ i2.filepath.kind = "none"
    THEN /\ i1.size = i2.size
         /\ i1.depth = i2.depth
         /\ i1.channels = i2.channels
    ELSE IF (i1.filepath.kind = "none") # (i2.filepath.kind = "none") THEN FALSE
    ELSE normpath(AbsComps(i1.filepath)) = normpath(AbsComps(i2.filepath))

\* The contents a datablock can have, three per data type; the second differs
\* from the first only in what the comparison of its type does not look at.
\* A datablock record carries the index of its content (field c).
MaterialContents ==
    << [use_nodes |-> TRUE, diffuse_color |-> <<8, 8, 8>>, metallic |-> 0, roughness |-> 5,
        node_tree |-> [exists |-> TRUE, nodes |-> <<"BSDF_PRINCIPLED", "OUTPUT_MATERIAL">>]],
       [use_nodes |-> TRUE, diffuse_color |-> <<2, 0, 0>>, metallic |-> 1, roughness |-> 5,
        node_tree |-> [exists |-> TRUE, nodes |-> <<"OUTPUT_MATERIAL", "BSDF_PRINCIPLED">>]],
       [use_nodes |-> FALSE, diffuse_color |-> <<8, 8, 8>>, metallic |-> 0, roughness |-> 5,
        node_tree |-> [exists |-> FALSE, nodes |-> <<>>]] >>

NodeGroupContents ==
    << [nodes |-> <<"GROUP_INPUT", "MATH", "GROUP_OUTPUT">>, links |-> 2,
        inputs  |-> << <<"A", "NodeSocketFloat">>, <<"B", "NodeSocketFloat">> >>,
        outputs |-> << <<"Out", "NodeSocketFloat">> >>],
       [nodes |-> <<"MATH", "GROUP_OUTPUT", "GROUP_INPUT">>, links |-> 2,
        inputs  |-> << <<"B", "NodeSocketFloat">>, <<"A", "NodeSocketFloat">> >>,
        outputs |-> << <<"Out", "NodeSocketFloat">> >>],
       [nodes |-> <<"GROUP_INPUT", "MATH", "GROUP_OUTPUT">>, links |-> 2,
        inputs  |-> << <<"A", "NodeSocketFloat">>, <<"B", "NodeSocketVector">> >>,
        outputs |-> << <<"Out", "NodeSocketFloat">> >>] >>

ImageContents ==
    << [filepath |-> [kind |-> "abs", comps |-> <<"tex", "a.png">>],
        size |-> <<4, 4>>, depth |-> 32, channels |-> 4],
       [filepath |-> [kind |-> "abs", comps |-> <<"tex", ".", "a.png">>],
        size |-> <<8, 8>>, depth |-> 32, channels |-> 4],
       [filepath |-> [kind |-> "none", comps |-> <<>>],
        size |-> <<4, 4>>, depth |-> 32, channels |-> 4] >>

MaterialOf(d) == MaterialContents[d.c]

\* The types of a set of nodes, as a sequence.
RECURSIVE NodeTypes(_)
NodeTypes(S) ==
    IF S = {} THEN <<>>
    ELSE LET u == CHOOSE w \in S : TRUE
         IN  <<u.type>> \o NodeTypes(S \ {u})

\* ng.nodes of a node group of the cleaned collection: the nodes of its
\* content and the nodes in it that use another datablock (consumers us).
NodeGroupOf(d, us) ==
    [NodeGroupContents[d.c] EXCEPT
        !.nodes = @ \o NodeTypes({u \in us : u.kind = "ngnode" /\ u.owner = d.id})]

ImageOf(d) == ImageContents[d.c]

are_items_identical_by_type(item1, item2, dt, us) ==
    CASE dt = "materials"   -> are_materials_identical(MaterialOf(item1), MaterialOf(item2))
      [] dt = "node_groups" -> are_node_groups_identical(NodeGroupOf(item1, us),
                                                          NodeGroupOf(item2, us))
      [] dt = "images"      -> are_images_identical(ImageOf(item1), ImageOf(item2))

(***************************************************************************)
(* CleanUp.py: conflict analysis with identity grouping                    *)
(***************************************************************************)
\* The index of the first group whose representative (its first member) is
\* identical to item; 0 when there is none.
RECURSIVE FirstMatchingGroup(_, _, _, _, _)
FirstMatchingGroup(groups, item, dt, us, k) ==
    IF k > Len(groups) THEN 0
    ELSE IF are_items_identical_by_type(item, groups[k][1], dt, us) THEN k
    ELSE FirstMatchingGroup(groups, item, dt, us, k + 1)

RECURSIVE GroupInto(_, _, _, _)
GroupInto(groups, items, dt, us) ==
    IF items = <<>> THEN groups
    ELSE LET item == Head(items)
             k    == FirstMatchingGroup(groups, item, dt, us, 1)
         IN  IF k = 0
             THEN GroupInto(Append(groups, <<item>>), Tail(items), dt, us)
             ELSE GroupInto([groups EXCEPT ![k] = Append(@, item)], Tail(items), dt, us)

group_items_all_identical(items, dt, us) == IF items = <<>> THEN <<>> ELSE <<items>>

\* A group is the sequence of its members; its representative is the first.
group_items_by_identity(items, dt, us) == GroupInto(<<>>, items, dt, us)

\* The base names of a collection in the order a dict first sees them.
RECURSIVE BasesInOrder(_, _)
BasesInOrder(coll, seen) ==
    IF coll = <<>> THEN seen
    ELSE LET b == get_base_name(Head(coll).name)
         IN  BasesInOrder(Tail(coll), IF b \in Range(seen) THEN seen ELSE Append(seen, b))

ItemsOfBase(coll, b) == SelectSeq(coll, LAMBDA d : get_base_name(d.name) = b)

LocalItems(items) == SelectSeq(items, LAMBDA d : ~is_linked_data(d))

LinkedItems(items) == SelectSeq(items, LAMBDA d : is_linked_data(d))

\* The conflicts dict as a sequence in insertion order.
analyze_data_conflicts_with_grouping(coll, dt, us) ==
    LET bases == SelectSeq(BasesInOrder(coll, <<>>),
                           LAMBDA b : Len(ItemsOfBase(coll, b)) > 1)
    IN  [k \in 1..Len(bases) |->
            [base_name       |-> bases[k],
             items           |-> ItemsOfBase(coll, bases[k]),
             identity_groups |-> group_items_by_identity(ItemsOfBase(coll, bases[k]), dt, us)]]

(***************************************************************************)
(* CleanUp.py: _remap_data of the three concrete operators                 *)
(*                                                                         *)
(* A consumer is a record [uid, kind, type, owner, ref]: kind is where the *)
(* reference lives ("slot": an object's material slot, "ngnode": a node of *)
(* a node group, "modifier": an object's modifier, "matnode"/"worldnode":  *)
(* a node of a material's / world's node tree), type is node.type or       *)
(* mod.type, owner is the id of the node group that holds an "ngnode" when *)
(* node groups are the cleaned collection (0 otherwise), and ref is the id *)
(* of the datablock referred to.                                           *)
(***************************************************************************)
\* CLEANUP_OT_clean_materials._remap_data: does it re-point consumer u?
remap_materials(u, old) ==
    \/ u.kind = "slot" /\ u.ref = old.id
    \/ u.kind = "ngnode" /\ u.ref = old.id

\* CLEANUP_OT_clean_node_groups._remap_data
remap_node_groups(u, old) ==
    \/ u.kind = "ngnode" /\ u.owner # old.id /\ u.type = "GROUP" /\ u.ref = old.id
    \/ u.kind = "modifier" /\ u.type = "NODES" /\ u.ref = old.id
    \/ u.kind = "matnode" /\ u.type = "GROUP" /\ u.ref = old.id
    \/ u.kind = "worldnode" /\ u.type = "GROUP" /\ u.ref = old.id

\* CLEANUP_OT_clean_images._remap_data
remap_images(u, old) ==
    \/ u.kind = "matnode" /\ u.type = "TEX_IMAGE" /\ u.ref = old.id
    \/ u.kind = "ngnode" /\ u.type = "TEX_IMAGE" /\ u.ref = old.id
    \/ u.kind = "worldnode" /\ u.type = "TEX_IMAGE" /\ u.ref = old.id

_remap_data(us, old, new, dt) ==
    LET hit(u) == CASE dt = "materials"   -> remap_materials(u, old)
                    [] dt = "node_groups" -> remap_node_groups(u, old)
                    [] dt = "images"      -> remap_images(u, old)
    IN  {IF hit(u) THEN [u EXCEPT !.ref = new.id] ELSE u : u \in us}

\* The nodes of a node group go away with the node group.
OwnedBy(u, d, dt) == dt = "node_groups" /\ u.kind = "ngnode" /\ u.owner = d.id

\* One "self._remap_data(item, target); self.data_collection.remove(item)".
\* The log entry keeps the consumers that still refer to item when remove()
\* is called.
RemapAndRemove(st, p, dt) ==
    LET us1 == _remap_data(st.users, p.item, p.target, dt)
        us2 == {u \in us1 : ~OwnedBy(u, p.item, dt)}
    IN  [data  |-> SelectSeq(st.data, LAMBDA d : d.id # p.item.id),
         users |-> us2,
         log   |-> Append(st.log, [item     |-> p.item,
                                   target   |-> p.target,
                                   dangling |-> {u.uid : u \in {w \in us2 : w.ref = p.item.id}}])]

RECURSIVE ApplyPlan(_, _, _)
ApplyPlan(plan, st, dt) ==
    IF plan = <<>> THEN st
    ELSE ApplyPlan(Tail(plan), RemapAndRemove(st, Head(plan), dt), dt)

(***************************************************************************)
(* CleanUp.py: the execution paths of BaseCleanupOperator.execute, each as *)
(* the sequence of (item, target) pairs it remaps and removes              *)
(***************************************************************************)
Pairs(items, target) ==
    LET rm == SelectSeq(items, LAMBDA m : m.id # target.id /\ ~is_linked_data(m))
    IN  [k \in 1..Len(rm) |-> [item |-> rm[k], target |-> target]]

\* The body of "for group in identity_groups" in _auto_clean_execution and
\* _standard_cleanup_with_grouping.
GroupPlan(members) ==
    IF Len(members) <= 1 THEN <<>>
    ELSE LET local_members  == LocalItems(members)
             representative == IF local_members # <<>> THEN local_members[1]
                               ELSE members[1]
         IN  Pairs(members, representative)

BasePlan(items, dt, us) ==
    IF Len(items) <= 1 THEN <<>>
    ELSE LET groups == group_items_by_identity(items, dt, us)
         IN  Flatten([k \in 1..Len(groups) |-> GroupPlan(groups[k])])

_standard_cleanup_with_grouping(coll, dt, us) ==
    LET bases == BasesInOrder(coll, <<>>)
    IN  Flatten([k \in 1..Len(bases) |-> BasePlan(ItemsOfBase(coll, bases[k]), dt, us)])

_auto_clean_execution(coll, dt, us) ==
    LET cs == analyze_data_conflicts_with_grouping(coll, dt, us)
        has_meaningful_duplicates(info) ==
            \E g \in DOMAIN info.identity_groups :
                Len(LocalItems(info.identity_groups[g])) > 1
    IN  Flatten([k \in 1..Len(cs) |->
            IF ~has_meaningful_duplicates(cs[k]) THEN <<>>
            ELSE BasePlan(ItemsOfBase(coll, cs[k].base_name), dt, us)])

\* The conflict reaches "_conflict_selections[self.DATA_TYPE].get(base_name)".
ReachesSelection(coll, c) ==
    ~c.skip_this_conflict /\ Len(LocalItems(ItemsOfBase(coll, c.base_name))) >= 2

_choose_data_execution(coll, confl, s) ==
    Flatten([k \in 1..Len(confl) |->
        LET c         == confl[k]
            all_items == ItemsOfBase(coll, c.base_name)
        IN  IF ~ReachesSelection(coll, c) THEN <<>>
            ELSE IF c.base_name \notin DOMAIN s THEN <<>>
            ELSE LET named == SelectSeq(all_items, LAMBDA d : d.name = s[c.base_name])
                 IN  IF named = <<>> THEN <<>> ELSE Pairs(all_items, named[1])])

_keep_linked_execution(coll, confl, dt, us) ==
    LET cs == analyze_data_conflicts_with_grouping(coll, dt, us)
    IN  Flatten([k \in 1..Len(confl) |->
            LET c    == confl[k]
                info == SelectSeq(cs, LAMBDA x : x.base_name = c.base_name)
            IN  IF c.skip_this_conflict THEN <<>>
                ELSE IF info = <<>> THEN <<>>
                ELSE LET linked_items == LinkedItems(info[1].items)
                         local_items  == LocalItems(info[1].items)
                     IN  IF linked_items = <<>> THEN <<>>
                         ELSE [j \in 1..Len(local_items) |->
                                  [item |-> local_items[j], target |-> linked_items[1]]]])

\* BaseCleanupOperator.execute: the path taken and its plan.
execute(hc, res, coll, confl, s, dt, us) ==
    IF ~hc THEN [path |-> "STANDARD", plan |-> _standard_cleanup_with_grouping(coll, dt, us)]
    ELSE IF res = "AUTO_CLEAN"
         THEN [path |-> "AUTO_CLEAN", plan |-> _auto_clean_execution(coll, dt, us)]
    ELSE IF res = "CHOOSE_DATA"
         THEN [path |-> "CHOOSE_DATA", plan |-> _choose_data_execution(coll, confl, s)]
    ELSE [path |-> "KEEP_LINKED", plan |-> _keep_linked_execution(coll, confl, dt, us)]

(***************************************************************************)
(* The scenes the cleanup operators are run on                             *)
(***************************************************************************)
DataTypes == {"materials", "node_groups", "images"}

Resolutions == {"AUTO_CLEAN", "CHOOSE_DATA", "KEEP_LINKED"}

\* "M", "M.000", "M.001", "M.002" in Blender's name order.
NameOrder == << <<"M">>,
                <<"M", ".", "0", "0", "0">>,
                <<"M", ".", "0", "0", "1">>,
                <<"M", ".", "0", "0", "2">> >>

Names == Range(NameOrder)

\* Where a reference to a datablock of the type can live: the places that
\* the loops of the type's _remap_data visit.
UserKinds(dt) ==
    CASE dt = "materials"   -> {"slot", "ngnode"}
      [] dt = "node_groups" -> {"ngnode", "modifier", "matnode", "worldnode"}
      [] dt = "images"      -> {"matnode", "ngnode", "worldnode"}

\* The node.type / mod.type values a consumer of the kind can have.  A node
\* group is the node_tree of a group node (GROUP) or the node_group of a
\* Geometry Nodes modifier (NODES); an image is the image of an Image Texture
\* node (TEX_IMAGE) or of an Environment Texture node (TEX_ENVIRONMENT), in a
\* material's, a world's or a node group's tree.
UserType(dt, kind) ==
    CASE dt = "materials"   -> IF kind = "slot" THEN {""} ELSE {"SET_MATERIAL"}
      [] dt = "node_groups" -> IF kind = "modifier" THEN {"NODES"} ELSE {"GROUP"}
      [] dt = "images"      -> {"TEX_IMAGE", "TEX_ENVIRONMENT"}

\* The scenes differ in the type of the consumers of each kind.
UserTypings(dt) ==
    {ty \in [UserKinds(dt) -> {"", "SET_MATERIAL", "NODES", "GROUP",
                               "TEX_IMAGE", "TEX_ENVIRONMENT"}] :
        \A kind \in UserKinds(dt) : ty[kind] \in UserType(dt, kind)}

\* The datablocks a scene is drawn from, as (name, library) pairs: library 0
\* is the open file (a local datablock), library 1 a linked .blend file.
SceneIds == (Names \X {0}) \cup {<<NameOrder[1], 1>>, <<NameOrder[3], 1>>}

NameIndex(name) == CHOOSE k \in DOMAIN NameOrder : NameOrder[k] = name

\* Blender keeps an ID list sorted: the local datablocks by name, then the
\* linked ones.
SceneRank(p) == p[2] * (Len(NameOrder) + 1) + NameIndex(p[1])

RECURSIVE SceneOrder(_)
SceneOrder(S) ==
    IF S = {} THEN <<>>
    ELSE LET first == CHOOSE p \in S : \A q \in S : SceneRank(p) <= SceneRank(q)
         IN  <<first>> \o SceneOrder(S \ {first})

\* S: the (name, library) pairs of the scene; f: the content of each.
SceneData(S, f) ==
    LET order == SceneOrder(S)
    IN  [k \in 1..Len(order) |->
            [id |-> k, name |-> order[k][1], lib |-> order[k][2],
             c |-> f[order[k]]]]

\* Datablock i is referred to by one consumer of each kind, of the type
\* ty[kind]. A node group of the cleaned collection is used by a node of the
\* node group before it: datablock i (i > 1) is nested in datablock i - 1.
SceneUsers(n, dt, ty) ==
    {[uid |-> <<kind, i>>, kind |-> kind, type |-> ty[kind],
      owner |-> IF dt = "node_groups" /\ kind = "ngnode" THEN i - 1 ELSE 0, ref |-> i]
        : <<kind, i>> \in {p \in UserKinds(dt) \X (1..n) :
                              dt = "node_groups" /\ p[1] = "ngnode" => p[2] > 1}}

EmptySel == [b \in {} |-> <<>>]

keep_selections(s) == s

\* invoke: _conflict_selections[self.DATA_TYPE].clear()
clear_selections(s) == EmptySel

InitClean ==
    /\ dtype \in DataTypes
    /\ \E S \in {T \in SUBSET SceneIds : Cardinality(T) = MaxItems} :
         \E f \in {g \in [S -> 1..3] : g[SceneOrder(S)[1]] = 1} :
           data = SceneData(S, f)
    /\ \E ty \in UserTypings(dtype) : users = SceneUsers(MaxItems, dtype, ty)
    /\ phase = "idle"
    /\ has_conflicts = FALSE
    /\ conflicts = <<>>
    /\ global_resolution = "AUTO_CLEAN"
    /\ sel = EmptySel
    /\ stale = {}
    /\ priorSel = FALSE
    /\ lastExec = "none"
    /\ pre = data
    /\ preUsers = users
    /\ preSel = EmptySel
    /\ preConflicts = <<>>
    /\ log = <<>>
    /\ selRead = FALSE
    /\ staleAtRead = {}

(***************************************************************************)
(* CleanUp.py: the operators as actions                                    *)
(***************************************************************************)
\* self.execute(context) on the operator's properties hc, res, confl with the
\* selections s (of which the keys st are stale). The dialog is gone
\* afterwards; has_conflicts and conflicts stay as they are, for the next
\* instance of the operator starts with the properties of this one (none of
\* them has the SKIP_SAVE option).
RunExecute(hc, res, confl, s, st) ==
    \E x \in {execute(hc, res, data, confl, s, dtype, users)} :
    \E out \in {ApplyPlan(x.plan, [data |-> data, users |-> users, log |-> <<>>], dtype)} :
    \E rd \in {x.path = "CHOOSE_DATA" /\ \E k \in DOMAIN confl : ReachesSelection(data, confl[k])} :
        /\ data' = out.data
        /\ users' = out.users
        /\ log' = out.log
        /\ lastExec' = x.path
        /\ pre' = data
        /\ preUsers' = users
        /\ preSel' = s
        /\ preConflicts' = confl
        /\ selRead' = rd
        /\ staleAtRead' = IF rd THEN st ELSE {}
        \* _choose_data_execution ends with _conflict_selections[...].clear()
        /\ sel' = IF x.path = "CHOOSE_DATA" THEN EmptySel ELSE s
        /\ stale' = IF x.path = "CHOOSE_DATA" THEN {} ELSE st
        /\ phase' = "idle"

\* The keys invoke writes, and the selections it leaves, when the dialog
\* opens: "if self.global_resolution == 'CHOOSE_DATA' and local_items".
InitialKeys(cs, res) ==
    IF res # "CHOOSE_DATA" THEN {}
    ELSE {cs[k].base_name : k \in {j \in DOMAIN cs : LocalItems(cs[j].items) # <<>>}}

InitialSelections(s, cs, res) ==
    [b \in InitialKeys(cs, res) |->
        LET k == CHOOSE j \in DOMAIN cs : cs[j].base_name = b
        IN  LocalItems(cs[k].items)[1].name] @@ s

\* BaseCleanupOperator.poll
poll == mods["CleanUp"]["module_enabled"] /\ Len(data) > 0

\* BaseCleanupOperator.invoke, reached from a button of the panel: shift is
\* event.shift, res the value of the operator's global_resolution property.
\* invoke sets has_conflicts and conflicts only when it finds conflicts;
\* otherwise execute runs on what the instance before left in them.
Invoke(shift, res) ==
    /\ phase = "idle"
    /\ poll
    /\ \E s0 \in {clear_selections(sel)} :
       \E cs \in {analyze_data_conflicts_with_grouping(data, dtype, users)} :
           /\ priorSel' = (DOMAIN sel # {})
           /\ global_resolution' = res
           /\ dtype' = dtype
           /\ IF shift \/ cs = <<>>
              THEN /\ RunExecute(has_conflicts, res, conflicts, s0, DOMAIN s0)
                   /\ UNCHANGED <<has_conflicts, conflicts>>
              ELSE \E s1 \in {InitialSelections(s0, cs, res)} :
                       /\ has_conflicts' = TRUE
                       /\ conflicts' = [k \in 1..Len(cs) |->
                                           [base_name |-> cs[k].base_name,
                                            skip_this_conflict |-> FALSE]]
                       /\ sel' = s1
                       /\ stale' = DOMAIN s0 \ InitialKeys(cs, res)
                       /\ phase' = "dialog"
                       /\ lastExec' = "none"
                       /\ pre' = data
                       /\ preUsers' = users
                       /\ preSel' = EmptySel
                       /\ preConflicts' = <<>>
                       /\ log' = <<>>
                       /\ selRead' = FALSE
                       /\ staleAtRead' = {}
                       /\ UNCHANGED <<data, users>>
    /\ UNCHANGED nonCleanVars

\* The user changes the strategy in the dialog.
SetResolution(res) ==
    /\ phase = "dialog"
    /\ res # global_resolution
    /\ global_resolution' = res
    /\ UNCHANGED <<dtype, data, users, phase, has_conflicts, conflicts, sel, stale,
                   priorSel, lastExec, pre, preUsers, preSel, preConflicts,
                   log, selRead, staleAtRead, nonCleanVars>>

\* The "Skip this conflict" box, drawn by _draw_conflict unless the strategy
\* is AUTO_CLEAN.
ToggleSkip(k) ==
    /\ phase = "dialog"
    /\ global_resolution # "AUTO_CLEAN"
    /\ k \in DOMAIN conflicts
    /\ conflicts' = [conflicts EXCEPT ![k].skip_this_conflict = ~@]
    /\ UNCHANGED <<dtype, data, users, phase, has_conflicts, global_resolution, sel,
                   stale, priorSel, lastExec, pre, preUsers, preSel,
                   preConflicts, log, selRead, staleAtRead, nonCleanVars>>

\* CLEANUP_OT_select_data_option.execute, from a button that
\* _draw_choose_data_options draws for a local option of a conflict that is
\* not skipped and has two local options or more.
SelectDataOption(k, name) ==
    /\ phase = "dialog"
    /\ global_resolution = "CHOOSE_DATA"
    /\ k \in DOMAIN conflicts
    /\ ~conflicts[k].skip_this_conflict
    /\ LET local_options == LocalItems(ItemsOfBase(data, conflicts[k].base_name))
       IN  /\ Len(local_options) >= 2
           /\ \E j \in DOMAIN local_options : local_options[j].name = name
    /\ sel' = (conflicts[k].base_name :> name) @@ sel
    /\ stale' = stale \ {conflicts[k].base_name}
    /\ UNCHANGED <<dtype, data, users, phase, has_conflicts, conflicts,
                   global_resolution, priorSel, lastExec, pre, preUsers,
                   preSel, preConflicts, log, selRead, staleAtRead, nonCleanVars>>

\* OK in the dialog: Blender calls execute.
Confirm ==
    /\ phase = "dialog"
    /\ RunExecute(has_conflicts, global_resolution, conflicts, sel, stale)
    /\ UNCHANGED <<dtype, global_resolution, priorSel, has_conflicts, conflicts,
                   nonCleanVars>>

\* The dialog is dismissed: nothing runs.
Cancel ==
    /\ phase = "dialog"
    /\ phase' = "idle"
    /\ UNCHANGED <<dtype, data, users, global_resolution, sel, stale, priorSel,
                   has_conflicts, conflicts,
                   lastExec, pre, preUsers, preSel, preConflicts, log,
                   selRead, staleAtRead, nonCleanVars>>

NextClean ==
    \/ \E shift \in BOOLEAN, res \in Resolutions : Invoke(shift, res)
    \/ \E res \in Resolutions : SetResolution(res)
    \/ \E k \in 1..MaxItems : ToggleSkip(k)
    \/ \E k \in 1..MaxItems, name \in Names : SelectDataOption(k, name)
    \/ Confirm
    \/ Cancel

\* No cleanup operator has run and the collections are empty.
CleanAtRest ==
    /\ dtype = "materials"
    /\ data = <<>>
    /\ users = {}
    /\ phase = "idle"
    /\ has_conflicts = FALSE
    /\ conflicts = <<>>
    /\ global_resolution = "AUTO_CLEAN"
    /\ sel = EmptySel
    /\ stale = {}
    /\ priorSel = FALSE
    /\ lastExec = "none"
    /\ pre = <<>>
    /\ preUsers = {}
    /\ preSel = EmptySel
    /\ preConflicts = <<>>
    /\ log = <<>>
    /\ selRead = FALSE
    /\ staleAtRead = {}

\* Number of threads started in one behaviour, number of update checks
\* among them, and number of changes of a library file's modification time.
MaxThreads == 4

MaxChecks == 2

MaxMtime == 1

\* What stands for the mtime of a file that does not exist: os.path.getmtime
\* raises.
Missing == -1

\* Bound on the number of start_background_process calls.
MaxStarts == 2

\* The (filepath, data_type) keys of the name scans.
ScanKeySeq == << <<"lib.blend", "materials">>, <<"lib.blend", "node_groups">> >>

ScanKeys == Range(ScanKeySeq)

KeyIndex(key) == CHOOSE i \in DOMAIN ScanKeySeq : ScanKeySeq[i] = key

\* The names of the datablocks in the target library file, and the
\* selections execute is called with: one datablock of a name that is in the
\* file, or one of a name that is not.
FileNames == {"Asset"}

SelectionSeq == << {"Asset"}, {"Other"} >>

Selections == Range(SelectionSeq)

\* AssetLibrarySettings.conflict_action
ConflictActionSeq == <<"SKIP", "OVERRIDE">>

\* The calls of ASSET_OT_add_to_library.execute on an existing library file,
\* with a selection of materials: the key of the file, the names of the
\* selection and conflict_action; and the number under which the main thread
\* holds the call it is inside of.
ExecuteKeys == {ScanKeySeq[1]}

ExecuteCalls == ExecuteKeys \X Selections \X Range(ConflictActionSeq)

CallIndex(c) ==
    ((KeyIndex(c[1]) - 1) * Len(SelectionSeq)
        + (CHOOSE i \in DOMAIN SelectionSeq : SelectionSeq[i] = c[2]) - 1)
            * Len(ConflictActionSeq)
        + (CHOOSE i \in DOMAIN ConflictActionSeq : ConflictActionSeq[i] = c[3])

ExecuteCall(arg) == CHOOSE c \in ExecuteCalls : CallIndex(c) = arg

Timer(fn, arg) == [fn |-> fn, arg |-> arg]

\* The versions newer than the installed one that the update manifest can
\* name.
RemoteVersions == {"2.3.0", "2.4.0"}

\* The functions that the add-on runs in threads of their own, each with the
\* number of its threads started so far (spawned).
ThreadTargets == {"_do_check", "_download_addon", "worker"}

\* updater_state.json holds JSON that is no object.
NotADict == "[]"

\* What _load_updater_state returns: a dict with "last_check" (set by an
\* earlier check, or "") and "dismissed_addon_version", or whatever else
\* json.load made of the file (a list).
StateDict(last_check, dismissed) ==
    [type |-> "dict", last_check |-> last_check, dismissed |-> dismissed]

StateList == [type |-> "list", last_check |-> FALSE, dismissed |-> NotADict]

\* The default that _load_updater_state returns.
DefaultState == StateDict(FALSE, "")

\* len(json.dumps(d, indent=2)) for the dict d: "last_check" is "" or
\* a time of 16 characters, a version has 5 characters.
StateJsonSize(d) ==
    55 + (IF d.last_check THEN 16 ELSE 0) + (IF d.dismissed = "" THEN 0 ELSE 5)

\* The contents of updater_state.json, with their size in bytes: the file
\* does not exist, it was opened for writing and is empty, it holds a dict as
\* json.dump writes it, it holds the list [], or it holds a dict and after
\* it the end of a longer one (GarbledState), which json.load rejects.
NoStateFile == [state |-> "absent", value |-> DefaultState, size |-> 0]

EmptiedState == [state |-> "partial", value |-> DefaultState, size |-> 0]

StateJson(d) == [state |-> "json", value |-> d, size |-> StateJsonSize(d)]

NotAnObject == [state |-> "json", value |-> StateList, size |-> 2]

GarbledState(size) == [state |-> "partial", value |-> DefaultState, size |-> size]

\* _load_updater_state(): the value of the file, or the default when the
\* file does not exist or json.load raises JSONDecodeError.
_load_updater_state(f) == IF f.state = "json" THEN f.value ELSE DefaultState

\* _save_updater_state after its open(path, 'w'): json.dump and the close
\* write the dict d from offset 0; what another writer has written since beyond
\* the length of the text stays in the file.
DumpedState(f, d) ==
    IF StateJsonSize(d) >= f.size THEN StateJson(d) ELSE GarbledState(f.size)

\* No check has found a newer version.
NoCheck == [by |-> "", found |-> "", dismissed |-> "", addon_dismissed |-> FALSE]

\* The main thread is between two events and timer calls.
Idle == Timer("", 0)

\* No thread was started and nothing has been scanned; pending says whether
\* updater.register() has armed the timer of _delayed_check.
WorkersAt(pending) ==
    /\ _update_state = [checked |-> FALSE, checking |-> FALSE,
                        addon_update_available |-> FALSE, addon_remote_version |-> "",
                        addon_download_url |-> "", error |-> "",
                        download_status |-> "", addon_dismissed |-> FALSE]
    /\ _manual_check = FALSE
    /\ _pending_timer = pending
    /\ _progress_timer_running = FALSE
    /\ timers = IF pending THEN SetToBag({Timer("_delayed_check", 0)}) ELSE EmptyBag
    /\ threads = {}
    /\ spawned = [target \in ThreadTargets |-> 0]
    /\ _file_scan_status = [k \in {} |-> ""]
    /\ _file_scan_cache = [k \in {} |-> <<>>]
    /\ file_mtime = [k \in ScanKeys |-> 0]
    /\ online_access \in BOOLEAN
    /\ api_calls = {}
    /\ main_pc = Idle
    /\ check_log = NoCheck

\* The threads and timers as updater.register() leaves them.
WorkersAtStart == WorkersAt(TRUE)

\* The threads and timers as the import of the add-on leaves them.
WorkersAtRest ==
    /\ WorkersAt(FALSE)
    /\ online_access = FALSE
    /\ updater_state_json = NoStateFile

\* The contents of the status file, with their size in bytes: the file does
\* not exist, it was opened for writing and is empty, it holds a status
\* object as json.dump writes it, or it holds a status object and after it
\* the end of a longer one (Garbled), which json.load rejects.
NoFile == [state |-> "absent", running |-> FALSE, status |-> "", size |-> 0]

Truncated == [state |-> "partial", running |-> FALSE, status |-> "", size |-> 0]

\* len(json.dumps({"running": running, "status": status}))
JsonSize(running, status) ==
    (IF running THEN 31 ELSE 32)
        + (CASE status = "Starting..." -> 11
             [] status = "Importing assets..." -> 19
             [] status = "Processing assets..." -> 20
             [] status = "Saving..." -> 9
             [] status = "Complete" -> 8)

StatusJson(running, status) ==
    [state |-> "json", running |-> running, status |-> status,
     size |-> JsonSize(running, status)]

\* The lengths of str(e) in the status "Error: <str(e)>" of the background
\* script: an empty message, a short one, and one that makes the status
\* longer than every other.
ErrorLengths == {0, 3, 13}

\* {"running": false, "status": "Error: <str(e)>"} as json.dump writes it, for
\* a message of len ASCII characters.
ErrorJson(len) ==
    [state |-> "json", running |-> FALSE, status |-> "Error: ...", size |-> 39 + len]

Garbled(size) == [state |-> "partial", running |-> FALSE, status |-> "", size |-> size]

\* A writer that opened the file f earlier writes content from offset 0 and
\* closes: what another writer has written since beyond the length of content
\* stays in the file.  A file that was unlinked in between stays absent.
Dumped(f, content) ==
    IF f.state = "absent" THEN f
    ELSE IF content.size >= f.size THEN content
    ELSE Garbled(f.size)

ChildIdle == [pc |-> 0, writing |-> FALSE, content |-> NoFile]

\* A JSON value as Python sees it: its type and its items.  The items of a
\* dict are its keys, those of a list its elements and those of a str its
\* substrings, where "assets" stands for every key, element or character
\* that is none of the two cache keys: the items are empty for the empty
\* dict, list and str only.  A number (int, float or bool) has the item
\* "nonzero" unless it is 0, 0.0 or False, and None has no item.
JsonValue(type, items) == [type |-> type, items |-> items]

None == JsonValue("NoneType", {})

\* There is no cache file and load_asset_cache was never called.
CacheAtRest ==
    /\ cache_file = [state |-> "missing", value |-> None]
    /\ cache_call = "none"
    /\ cache = None

\* qp.floating_panel and qp.floating_panel_simple were never invoked: there
\* is no operator instance, and one window whose screen has one area.
NoPanelOp == [ops |-> <<>>, areas |-> <<1>>, simple |-> "", invokes |-> 0]

PanelAtRest == panel_op = NoPanelOp

\* No call of find_materials_in_node_group was made.
NoFind == [group |-> "", materials |-> {}]

\* There are no group nodes, the cache is the empty dict of the import, and
\* find_materials_in_node_group was never called.
MatAtRest ==
    /\ ng_edges = {}
    /\ ng_named = {}
    /\ _node_group_materials_cache = [g \in {} |-> NoFind]
    /\ now = 0
    /\ last_find = NoFind

\* No background process was ever started.
BgAtRest ==
    /\ status_file = NoFile
    /\ proc = [i \in 1..MaxStarts |-> "none"]
    /\ child = [i \in 1..MaxStarts |-> ChildIdle]
    /\ start_ok = FALSE
    /\ starts = 0

\* The add-on has not been enabled: nothing of it is registered.
AddonAtRest ==
    /\ addon_state = "initial"
    /\ prefs = [p \in {} |-> TRUE]
    /\ toggles = 0
    /\ bl_classes = {}
    /\ bl_handlers = {}
    /\ bl_props = {}
    /\ bl_menus = {}
    /\ register_calls = {}
    /\ prefs_at_register = [p \in {} |-> TRUE]

(***************************************************************************)
(* module_helper.py: ModuleManager                                         *)
(***************************************************************************)
\* A module object is the function from the names of the attributes it has
\* to their values.
hasattr(obj, a) == a \in DOMAIN obj

setattr(obj, a, v) == (a :> v) @@ obj

\* The state attributes as the modules define them at import: all of them
\* set module_enabled = True, and all but CleanUp set _is_registered = False.
\* CleanUp overwrites module_enabled with the cleanup_enabled preference.
ModuleAtImport(name, cleanup_enabled) ==
    IF name = "CleanUp" THEN "module_enabled" :> cleanup_enabled
    ELSE ("module_enabled" :> TRUE) @@ ("_is_registered" :> FALSE)

\* register_module without the skip_if_registered test.
register_module_always(module_obj, skip_if_registered) ==
    LET m == setattr(setattr(module_obj, "_is_registered", TRUE), "module_enabled",
                     IF hasattr(module_obj, "module_enabled")
                     THEN module_obj["module_enabled"] ELSE TRUE)
    IN  IF m["module_enabled"] THEN [obj |-> m, ret |-> TRUE]
        ELSE [obj |-> module_obj, ret |-> FALSE]

\* ModuleManager.register_module: the module object afterwards and the value
\* returned.
register_module(module_obj, skip_if_registered) ==
    LET m1 == IF ~hasattr(module_obj, "_is_registered")
              THEN setattr(module_obj, "_is_registered", FALSE) ELSE module_obj
        m2 == IF ~hasattr(m1, "module_enabled")
              THEN setattr(m1, "module_enabled", TRUE) ELSE m1
    IN  IF m2["_is_registered"] /\ skip_if_registered THEN [obj |-> m2, ret |-> FALSE]
        ELSE IF ~m2["module_enabled"] THEN [obj |-> m2, ret |-> FALSE]
        ELSE [obj |-> setattr(m2, "_is_registered", TRUE), ret |-> TRUE]

ensure_module_state(module_obj) ==
    LET m1 == IF ~hasattr(module_obj, "_is_registered")
              THEN setattr(module_obj, "_is_registered", FALSE) ELSE module_obj
    IN  IF ~hasattr(m1, "module_enabled")
        THEN setattr(m1, "module_enabled", TRUE) ELSE m1

\* ModuleManager.unregister_module
unregister_module(module_obj, skip_if_not_registered) ==
    LET m == ensure_module_state(module_obj)
    IN  IF skip_if_not_registered /\ ~m["_is_registered"] THEN [obj |-> m, ret |-> FALSE]
        ELSE [obj |-> setattr(m, "_is_registered", FALSE), ret |-> TRUE]

\* The modules the bookkeeping is exercised on: two that define both state
\* attributes and the one that defines module_enabled only.
HelperModules == {"MaterialList", "quick_asset_library", "CleanUp"}

NoCall == [op |-> "none", name |-> "", skip |-> TRUE, ret |-> FALSE,
           before |-> [n \in {} |-> <<>>]]

ModulesAtImport ==
    /\ mods = [n \in HelperModules |-> ModuleAtImport(n, TRUE)]
    /\ call = NoCall

InitModules ==
    /\ \E cleanup_enabled \in BOOLEAN :
          mods = [n \in HelperModules |-> ModuleAtImport(n, cleanup_enabled)]
    /\ call = NoCall
    /\ CleanAtRest
    /\ AddonAtRest
    /\ WorkersAtRest
    /\ BgAtRest /\ PanelAtRest /\ MatAtRest
    /\ CacheAtRest

\* A module's register() reaching ModuleManager.register_module.
RegisterModule(name, skip) ==
    LET r == register_module(mods[name], skip)
    IN  /\ mods' = [mods EXCEPT ![name] = r.obj]
        /\ call' = [op |-> "register", name |-> name, skip |-> skip,
                    ret |-> r.ret, before |-> mods]
        /\ UNCHANGED nonModVars

\* A module's unregister() reaching ModuleManager.unregister_module.
UnregisterModule(name, skip) ==
    LET r == unregister_module(mods[name], skip)
    IN  /\ mods' = [mods EXCEPT ![name] = r.obj]
        /\ call' = [op |-> "unregister", name |-> name, skip |-> skip,
                    ret |-> r.ret, before |-> mods]
        /\ UNCHANGED nonModVars

NextModules ==
    \/ \E name \in HelperModules, skip \in BOOLEAN : RegisterModule(name, skip)
    \/ \E name \in HelperModules, skip \in BOOLEAN : UnregisterModule(name, skip)

SpecModules == InitModules /\ [][NextModules]_vars

(***************************************************************************)
(* The modules' register() and unregister()                                *)
(***************************************************************************)
\* What one register() adds to Blender, or one unregister() removes from it:
\* classes, handlers, properties, menu functions, and the functions given to
\* bpy.app.timers.register (WithTimers): each register() makes a new
\* function object (a nested def or a lambda) and registers it once, and no
\* unregister() of a module removes one.
Parts(c, h, p, m) ==
    [classes |-> c, handlers |-> h, props |-> p, menus |-> m, timers |-> {}]

WithTimers(parts, fns) == [parts EXCEPT !.timers = {Timer(fn, 0) : fn \in fns}]

BevelWeight ==
    [reg   |-> Parts({"QP_OT_BevelWeight"}, {}, {}, {}),
     unreg |-> Parts({"QP_OT_BevelWeight"}, {}, {}, {})]

CleanUp ==
    [reg   |-> Parts({"CLEANUP_DataOption", "CLEANUP_ConflictItem",
                      "CLEANUP_OT_select_data_option", "CLEANUP_OT_clean_materials",
                      "CLEANUP_OT_clean_node_groups", "CLEANUP_OT_clean_images"},
                     {}, {}, {}),
     unreg |-> Parts({"CLEANUP_OT_clean_images", "CLEANUP_OT_clean_node_groups",
                      "CLEANUP_OT_clean_materials", "CLEANUP_OT_select_data_option",
                      "CLEANUP_ConflictItem", "CLEANUP_DataOption"},
                     {}, {}, {})]

CollectionOffset ==
    [reg   |-> Parts({"OBJECT_OT_set_collection_offset"}, {}, {}, {}),
     unreg |-> Parts({"OBJECT_OT_set_collection_offset"}, {}, {}, {})]

EdgeSelect ==
    [reg   |-> Parts({"QP_OT_AssignVGroup"}, {}, {}, {}),
     unreg |-> Parts({"QP_OT_AssignVGroup"}, {}, {}, {})]

FloatingPanel ==
    [reg   |-> Parts({"QP_OT_FloatingPanel", "QP_OT_FloatingPanelSimple"}, {}, {},
                     {<<"VIEW3D_MT_view", "menu_func">>}),
     unreg |-> Parts({"QP_OT_FloatingPanelSimple", "QP_OT_FloatingPanel"}, {}, {},
                     {<<"VIEW3D_MT_view", "menu_func">>})]

LatticeSetup ==
    [reg   |-> Parts({"QP_OT_LatticeSetup"}, {}, {}, {}),
     unreg |-> Parts({"QP_OT_LatticeSetup"}, {}, {}, {})]

LinkNodeGroups ==
    [reg   |-> Parts({"NodeGroupLinker"}, {}, {}, {}),
     unreg |-> Parts({"NodeGroupLinker"}, {}, {}, {})]

MaterialList ==
    [reg   |-> Parts({"MaterialManagerProperties", "MATERIAL_OT_apply_to_selected",
                      "MATERIAL_OT_open_shader_window", "MATERIAL_OT_open_material_list",
                      "MATERIAL_OT_purge_unused", "MATERIAL_OT_purge_orphaned_data",
                      "MATERIAL_OT_create_new", "MATERIAL_OT_select_linked_objects",
                      "MATERIAL_OT_toggle_show_all"},
                     {}, {<<"Scene", "material_manager_props">>}, {}),
     unreg |-> Parts({"MATERIAL_OT_open_material_list", "MATERIAL_OT_open_shader_window",
                      "MATERIAL_OT_apply_to_selected", "MATERIAL_OT_purge_unused",
                      "MATERIAL_OT_purge_orphaned_data", "MATERIAL_OT_create_new",
                      "MATERIAL_OT_select_linked_objects", "MATERIAL_OT_toggle_show_all",
                      "MaterialManagerProperties"},
                     {}, {}, {})]

Project_Box_Flat ==
    [reg   |-> Parts({"QP_OT_BoxOrFlatMapping", "QP_OT_SetProjection",
                      "QP_OT_ColorSpaceMenu", "QP_OT_SetColorSpace"}, {}, {}, {}),
     unreg |-> Parts({"QP_OT_SetColorSpace", "QP_OT_ColorSpaceMenu",
                      "QP_OT_SetProjection", "QP_OT_BoxOrFlatMapping"}, {}, {}, {})]

TextureSet_builder ==
    [reg   |-> Parts({"PackImageTexturesOperator"}, {}, {}, {}),
     unreg |-> Parts({"PackImageTexturesOperator"}, {}, {}, {})]

asset_browser_pie ==
    [reg   |-> Parts({"QP_MT_AssetLibraryPie", "QP_OT_OpenAssetLibrary",
                      "QP_OT_CallAssetLibraryMenu", "QP_OT_UpdateAssetBrowserLibraries",
                      "QP_OT_ToggleAssetBrowserLibrary"}, {}, {}, {}),
     unreg |-> Parts({"QP_OT_ToggleAssetBrowserLibrary", "QP_OT_UpdateAssetBrowserLibraries",
                      "QP_OT_CallAssetLibraryMenu", "QP_OT_OpenAssetLibrary",
                      "QP_MT_AssetLibraryPie"}, {}, {}, {})]

\* pie_menu_builder.classes
pie_menu_builder_classes ==
    {"QP_OT_AddCustomPieMenu", "QP_OT_RemoveCustomPieMenu", "QP_OT_DuplicateCustomPieMenu",
     "QP_OT_MoveCustomPieMenu", "QP_OT_AddPieMenuItem", "QP_OT_RemovePieMenuItem",
     "QP_OT_MovePieMenuItem", "QP_OT_AddContextRule", "QP_OT_RemoveContextRule",
     "QP_OT_CallCustomPieMenu", "QP_OT_CycleEnumProperty", "QP_OT_TogglePieItemExpanded",
     "QP_OT_PickIcon", "QP_OT_SetIconValue", "QP_OT_SearchOperator",
     "QP_OT_SelectSmartAction", "QP_OT_SelectSmartToggle", "QP_OT_ToggleSmartActionContext",
     "QP_OT_ExecuteSmartAction", "QP_OT_CaptureShortcut", "QP_OT_SimulateShortcut",
     "QP_OT_SetPieItemPosition", "QP_OT_ExportPieMenus", "QP_OT_ImportPieMenus"}

\* No custom pie menu is defined, so there are no dynamic menu classes and no
\* keymap entries of them to remove; unregister() leaves the timer of
\* delayed_init.
pie_menu_builder ==
    [reg   |-> WithTimers(Parts(pie_menu_builder_classes,
                                {<<"load_post", "_on_load_post">>}, {}, {}),
                          {"delayed_init"}),
     unreg |-> Parts(pie_menu_builder_classes, {<<"load_post", "_on_load_post">>}, {}, {})]

quick_asset_library ==
    [reg   |-> Parts({"AssetLibrarySettings", "ASSET_OT_add_to_library",
                      "QP_OT_open_asset_list"},
                     {<<"load_post", "load_handler">>},
                     {<<"Scene", "asset_library_settings">>}, {}),
     unreg |-> Parts({"ASSET_OT_add_to_library", "AssetLibrarySettings"},
                     {<<"load_post", "load_handler">>},
                     {<<"Scene", "asset_library_settings">>}, {})]

qp_tools_panel_classes ==
    {"QP_PT_main_panel", "QP_PT_materials_panel", "QP_PT_cleanup_panel",
     "QP_PT_quickasset_panel", "QP_PT_node_main_panel", "QP_PT_shader_asset_panel",
     "QP_PT_geometry_asset_panel", "QP_PT_compositor_asset_panel"}

\* unregister() leaves the timer of force_redraw_on_switch.
qp_tools_panel ==
    [reg   |-> WithTimers(Parts(qp_tools_panel_classes, {}, {}, {}),
                          {"force_redraw_on_switch"}),
     unreg |-> Parts(qp_tools_panel_classes, {}, {}, {})]

qp_tools_pie_menu ==
    [reg   |-> Parts({"QP_MT_pie_menu_assets", "QP_OT_call_asset_menu", "QP_OT_ToggleLibrary",
                      "QP_OT_open_library_in_browser"}, {}, {}, {}),
     unreg |-> Parts({"QP_OT_open_library_in_browser", "QP_OT_ToggleLibrary",
                      "QP_OT_call_asset_menu", "QP_MT_pie_menu_assets"}, {}, {}, {})]

ui_menu_functions ==
    {<<"NODE_MT_context_menu", "shader_editor_menu_func">>,
     <<"NODE_MT_node", "shader_editor_menu_func">>,
     <<"VIEW3D_MT_edit_mesh_context_menu", "view3d_menu_func">>,
     <<"VIEW3D_MT_object_context_menu", "context_menu_func">>,
     <<"VIEW3D_MT_object", "object_menu_func">>}

ui ==
    [reg   |-> Parts({"QP_MT_ShaderTools", "QP_MT_MeshTools", "QP_MT_AssetLibraries"},
                     {}, {}, ui_menu_functions),
     unreg |-> Parts({"QP_MT_AssetLibraries", "QP_MT_MeshTools", "QP_MT_ShaderTools"},
                     {}, {}, ui_menu_functions)]

\* The modules with no registration flag: their register() and unregister()
\* always run.
qp_tools_assets ==
    [reg   |-> Parts({"QP_MT_library_assets_menu", "QP_OT_show_category_assets",
                      "QP_OT_show_library_assets"},
                     {}, {<<"WindowManager", "category_name">>}, {}),
     unreg |-> Parts({"QP_OT_show_library_assets", "QP_OT_show_category_assets",
                      "QP_MT_library_assets_menu"},
                     {}, {<<"WindowManager", "category_name">>}, {})]

asset_cache_operators ==
    {"QP_OT_ScanLibraryAssets", "QP_OT_RefreshAssetCache", "QP_OT_AssetCacheStats",
     "QP_OT_ForceRefreshLibrary", "QP_OT_ShowCacheHealth", "QP_OT_ValidateLibrary"}

preferences ==
    [reg   |-> Parts({"QP_OT_ShowCoreModulesTab", "QP_OT_toggle_module", "QP_AssetItem",
                      "QP_AssetLibrary", "QP_LibraryPG", "QP_ContextRule", "QP_PieMenuItem",
                      "QP_CustomPieMenu", "QP_OT_ToggleAsset", "QP_OT_ToggleCategory",
                      "QP_OT_ToggleCategoryAssets", "QP_OT_InstallLibrary",
                      "QP_OT_SyncAssetLibraries", "QP_OT_ToggleAllAssets",
                      "QP_OT_ShowLibraryAssets", "QP_OT_AppendAsset", "QP_Tools_Preferences"}
                         \cup asset_cache_operators,
                     {<<"load_post", "sync_on_load">>, <<"load_post", "reset_module_changes">>},
                     {<<"WindowManager", "library_name">>}, {}),
     unreg |-> Parts({"QP_OT_toggle_module", "QP_OT_AppendAsset", "QP_OT_ShowLibraryAssets",
                      "QP_OT_ToggleAllAssets", "QP_OT_SyncAssetLibraries",
                      "QP_OT_InstallLibrary", "QP_OT_ToggleCategoryAssets",
                      "QP_OT_ToggleCategory", "QP_OT_ToggleAsset", "QP_OT_ShowCoreModulesTab",
                      "QP_CustomPieMenu", "QP_PieMenuItem", "QP_ContextRule", "QP_LibraryPG",
                      "QP_AssetLibrary", "QP_AssetItem", "QP_Tools_Preferences"}
                         \cup asset_cache_operators,
                     {<<"load_post", "sync_on_load">>, <<"load_post", "reset_module_changes">>},
                     {<<"WindowManager", "library_name">>}, {})]

shortcuts ==
    [reg   |-> Parts({"QP_OT_RecreateShortcuts"}, {}, {}, {}),
     unreg |-> Parts({"QP_OT_RecreateShortcuts"}, {}, {}, {})]

qp_image_updater_handlers ==
    {<<"depsgraph_update_post", "update_on_depsgraph">>,
     <<"load_post", "update_on_load">>,
     <<"save_pre", "update_on_save_pre">>}

\* unregister() keeps ShaderNodeGroup.qp_node_info on purpose; its test
\* bpy.app.timers.is_registered(update_on_load) is False, because register()
\* gave the timers a lambda, whose timer it leaves.
qp_image_updater ==
    [reg   |-> WithTimers(Parts({"QP_NodeInfo", "QP_IMAGE_UPDATER_OT_manual_update"},
                                qp_image_updater_handlers,
                                {<<"ShaderNodeGroup", "qp_node_info">>}, {}),
                          {"<lambda>"}),
     unreg |-> Parts({"QP_IMAGE_UPDATER_OT_manual_update", "QP_NodeInfo"},
                     qp_image_updater_handlers, {}, {})]

updater ==
    [reg   |-> Parts({"QP_OT_check_updates", "QP_OT_update_addon", "QP_OT_dismiss_update",
                      "QP_OT_open_addon_prefs"}, {}, {}, {}),
     unreg |-> Parts({"QP_OT_open_addon_prefs", "QP_OT_dismiss_update", "QP_OT_update_addon",
                      "QP_OT_check_updates"}, {}, {}, {})]

\* __init__.modules
modules ==
    <<"BevelWeight", "CleanUp", "CollectionOffset", "EdgeSelect", "FloatingPanel",
      "LatticeSetup", "LinkNodeGroups", "MaterialList", "Project_Box_Flat",
      "TextureSet_builder", "asset_browser_pie", "pie_menu_builder",
      "quick_asset_library", "qp_tools_panel">>

\* importlib.import_module: the code of the module of that name.
import_module(name) ==
    CASE name = "BevelWeight" -> BevelWeight
      [] name = "CleanUp" -> CleanUp
      [] name = "CollectionOffset" -> CollectionOffset
      [] name = "EdgeSelect" -> EdgeSelect
      [] name = "FloatingPanel" -> FloatingPanel
      [] name = "LatticeSetup" -> LatticeSetup
      [] name = "LinkNodeGroups" -> LinkNodeGroups
      [] name = "MaterialList" -> MaterialList
      [] name = "Project_Box_Flat" -> Project_Box_Flat
      [] name = "TextureSet_builder" -> TextureSet_builder
      [] name = "asset_browser_pie" -> asset_browser_pie
      [] name = "pie_menu_builder" -> pie_menu_builder
      [] name = "quick_asset_library" -> quick_asset_library
      [] name = "qp_tools_panel" -> qp_tools_panel
      [] name = "qp_tools_pie_menu" -> qp_tools_pie_menu
      [] name = "ui" -> ui

\* The modules whose register() asks ModuleManager first.
FlaggedModules == Range(modules) \cup {"qp_tools_pie_menu", "ui"}

\* module_state.is_module_enabled: preference_map, "ui": True
preference_map ==
    [LinkNodeGroups |-> "link_node_groups_enabled",
     TextureSet_builder |-> "texture_set_builder_enabled",
     Project_Box_Flat |-> "project_box_flat_enabled",
     EdgeSelect |-> "edge_select_enabled",
     CollectionOffset |-> "collection_offset_enabled",
     BevelWeight |-> "bevel_weight_enabled",
     LatticeSetup |-> "lattice_setup_enabled",
     MaterialList |-> "materiallist_enabled",
     CleanUp |-> "cleanup_enabled",
     asset_browser_pie |-> "asset_browser_pie_enabled",
     qp_tools_pie_menu |-> "qp_tools_pie_menu_enabled",
     quick_asset_library |-> "quick_asset_library_enabled"]

\* The module toggles the preferences panel draws (draw_toggle_button).
ModuleProps ==
    {"edge_select_enabled", "collection_offset_enabled", "bevel_weight_enabled",
     "floating_panel_enabled", "lattice_setup_enabled", "materiallist_enabled",
     "cleanup_enabled", "link_node_groups_enabled", "texture_set_builder_enabled",
     "project_box_flat_enabled", "quick_asset_library_enabled",
     "qp_tools_pie_menu_enabled", "asset_browser_pie_enabled",
     "pie_menu_builder_enabled"}

is_module_enabled(module_name, p) ==
    IF module_name \in DOMAIN preference_map /\ preference_map[module_name] \in DOMAIN p
    THEN p[preference_map[module_name]]
    ELSE TRUE

(***************************************************************************)
(* __init__.py: the add-on's register() and unregister()                   *)
(***************************************************************************)
\* st is the modules' state attributes together with Blender's registries.
AddParts(st, parts) ==
    [st EXCEPT !.classes = @ \cup parts.classes, !.handlers = @ \cup parts.handlers,
               !.props = @ \cup parts.props, !.menus = @ \cup parts.menus,
               !.timers = @ (+) SetToBag(parts.timers)]

RemoveParts(st, parts) ==
    [st EXCEPT !.classes = @ \ parts.classes, !.handlers = @ \ parts.handlers,
               !.props = @ \ parts.props, !.menus = @ \ parts.menus,
               !.timers = @ (-) SetToBag(parts.timers)]

\* <module>.register() of a module that begins with
\* "if not ModuleManager.register_module(sys.modules[__name__]): return".
module_register(st, name) ==
    LET r   == register_module(st.mods[name], TRUE)
        st1 == [st EXCEPT !.mods[name] = r.obj]
        st2 == AddParts(st1, import_module(name).reg)
    IN  IF ~r.ret THEN st1
        ELSE \* quick_asset_library.register(): os.unlink(status_file)
             IF name = "quick_asset_library" THEN [st2 EXCEPT !.status_file = NoFile]
             ELSE st2

\* <module>.unregister() of such a module.
module_unregister(st, name) ==
    LET r   == unregister_module(st.mods[name], TRUE)
        st1 == [st EXCEPT !.mods[name] = r.obj]
        st2 == RemoveParts(st1, import_module(name).unreg)
    IN  IF ~r.ret THEN st1
        ELSE \* quick_asset_library.unregister(): os.unlink(status_file)
             IF name = "quick_asset_library" THEN [st2 EXCEPT !.status_file = NoFile]
             ELSE st2

\* The parts that the modules of the set ms add (f = "reg") or remove
\* (f = "unreg").
PartsOf(ms, f) ==
    [classes  |-> UNION {import_module(n)[f].classes : n \in ms},
     handlers |-> UNION {import_module(n)[f].handlers : n \in ms},
     props    |-> UNION {import_module(n)[f].props : n \in ms},
     menus    |-> UNION {import_module(n)[f].menus : n \in ms},
     timers   |-> UNION {import_module(n)[f].timers : n \in ms}]

\* The modules of the list whose register() the loop of register() calls.
called_modules(names, p) == {n \in Range(names) : is_module_enabled(n, p)}

\* register(): "for module_name in modules: ... if hasattr(module, 'register')
\* and module_state.is_module_enabled(module_name): module.register()".
\* The names are distinct and a module's register() touches its own flag
\* only, so the loop is computed for all modules at once.
register_modules(st, names, p) ==
    LET run  == called_modules(names, p)
        done == {n \in run : register_module(st.mods[n], TRUE).ret}
        st1  == [st EXCEPT !.mods = [n \in DOMAIN st.mods |->
                                        IF n \in run
                                        THEN register_module(st.mods[n], TRUE).obj
                                        ELSE st.mods[n]]]
        st2  == AddParts(st1, PartsOf(done, "reg"))
    IN  \* quick_asset_library.register(): os.unlink(status_file)
        IF "quick_asset_library" \in done THEN [st2 EXCEPT !.status_file = NoFile] ELSE st2

\* unregister(): "for module in reversed(imported_modules): module.unregister()"
unregister_modules(st, names) ==
    LET done == {n \in Range(names) : unregister_module(st.mods[n], TRUE).ret}
        st1  == [st EXCEPT !.mods = [n \in DOMAIN st.mods |->
                                        IF n \in Range(names)
                                        THEN unregister_module(st.mods[n], TRUE).obj
                                        ELSE st.mods[n]]]
        st2  == RemoveParts(st1, PartsOf(done, "unreg"))
    IN  \* quick_asset_library.unregister(): os.unlink(status_file)
        IF "quick_asset_library" \in done THEN [st2 EXCEPT !.status_file = NoFile] ELSE st2

load_libraries_and_save_prefs ==
    Parts({}, {<<"load_post", "load_libraries_and_save_prefs">>}, {}, {})

\* updater.register
updater_register(st) ==
    [AddParts(st, updater.reg) EXCEPT
        !._pending_timer = TRUE, !.timers = @ (+) SetToBag({Timer("_delayed_check", 0)})]

\* updater.unregister
updater_unregister(st) ==
    LET st1 == IF st._pending_timer
               THEN [st EXCEPT !.timers = @ (-) SetToBag({Timer("_delayed_check", 0)}),
                               !._pending_timer = FALSE]
               ELSE st
    IN  RemoveParts(st1, updater.unreg)

\* __init__.register
register(st, p) ==
    LET s1 == AddParts(AddParts(AddParts(st, qp_tools_assets.reg), preferences.reg),
                       shortcuts.reg)
        s2 == IF is_module_enabled("qp_tools_pie_menu", p)
              THEN module_register(s1, "qp_tools_pie_menu") ELSE s1
        s3 == register_modules(s2, modules, p)
        s4 == module_register(module_register(s3, "qp_tools_panel"), "ui")
        s5 == updater_register(AddParts(s4, qp_image_updater.reg))
    IN  AddParts(s5, load_libraries_and_save_prefs)

\* The modules whose register() is called by __init__.register.
register_called(p) ==
    {"qp_tools_assets", "preferences", "shortcuts"}
        \cup (IF is_module_enabled("qp_tools_pie_menu", p)
              THEN {"qp_tools_pie_menu"} ELSE {})
        \cup called_modules(modules, p)
        \cup {"qp_tools_panel", "ui", "qp_image_updater", "updater"}

\* __init__.unregister
unregister(st, p) ==
    LET s1 == RemoveParts(st, load_libraries_and_save_prefs)
        s2 == updater_unregister(s1)
        s3 == module_unregister(s2, "ui")
        s4 == RemoveParts(s3, qp_image_updater.unreg)
        s5 == module_unregister(s4, "qp_tools_panel")
        s6 == unregister_modules(s5, modules)
        s7 == IF is_module_enabled("qp_tools_pie_menu", p)
              THEN module_unregister(s6, "qp_tools_pie_menu") ELSE s6
    IN  RemoveParts(RemoveParts(RemoveParts(s7, shortcuts.unreg), preferences.unreg),
                    qp_tools_assets.unreg)

\* Number of times the user toggles a module in the preferences.
MaxToggles == 2

\* Number of timers of one function that are pending at a time.
MaxPending == 2

\* What register() and unregister() work on: the modules' state attributes,
\* Blender's registries, the status file and the timers.
Registries ==
    [mods |-> mods, classes |-> bl_classes, handlers |-> bl_handlers,
     props |-> bl_props, menus |-> bl_menus, status_file |-> status_file,
     timers |-> timers, _pending_timer |-> _pending_timer]

\* The variables that neither register() nor unregister() writes.
nonRegistryVars ==
    <<cleanVars, call, _update_state, _manual_check, _progress_timer_running,
      threads, spawned, _file_scan_status, _file_scan_cache, file_mtime,
      online_access, api_calls, main_pc,
      updater_state_json, check_log, proc, child, start_ok, starts,
      cacheVars, panelVars, matVars>>

\* The add-on's modules are imported, the preferences have their defaults
\* and nothing is registered; a status file of an earlier session may lie in
\* the temp directory.
InitAddon ==
    /\ addon_state = "initial"
    /\ prefs = [p \in ModuleProps |-> TRUE]
    /\ toggles = 0
    /\ mods = [n \in FlaggedModules |-> ModuleAtImport(n, TRUE)]
    /\ call = NoCall
    /\ bl_classes = {}
    /\ bl_handlers = {}
    /\ bl_props = {}
    /\ bl_menus = {}
    /\ register_calls = {}
    /\ prefs_at_register = [p \in {} |-> TRUE]
    /\ CleanAtRest
    /\ WorkersAtRest
    /\ status_file \in {NoFile, StatusJson(TRUE, "Starting...")}
    /\ proc = [i \in 1..MaxStarts |-> "none"]
    /\ child = [i \in 1..MaxStarts |-> ChildIdle]
    /\ start_ok = FALSE
    /\ starts = 0
    /\ PanelAtRest /\ MatAtRest
    /\ CacheAtRest

\* Blender enables the add-on.
AddonRegister ==
    /\ addon_state # "registered"
    /\ \A tm \in BagToSet(timers) : CopiesIn(tm, timers) < MaxPending
    /\ LET st == register(Registries, prefs)
       IN  /\ mods' = st.mods
           /\ bl_classes' = st.classes
           /\ bl_handlers' = st.handlers
           /\ bl_props' = st.props
           /\ bl_menus' = st.menus
           /\ status_file' = st.status_file
           /\ timers' = st.timers
           /\ _pending_timer' = st._pending_timer
    /\ addon_state' = "registered"
    /\ register_calls' = register_called(prefs)
    /\ prefs_at_register' = prefs
    /\ UNCHANGED <<prefs, toggles, nonRegistryVars>>

\* Blender disables the add-on.
AddonUnregister ==
    /\ addon_state = "registered"
    /\ LET st == unregister(Registries, prefs)
       IN  /\ mods' = st.mods
           /\ bl_classes' = st.classes
           /\ bl_handlers' = st.handlers
           /\ bl_props' = st.props
           /\ bl_menus' = st.menus
           /\ status_file' = st.status_file
           /\ timers' = st.timers
           /\ _pending_timer' = st._pending_timer
    /\ addon_state' = "unregistered"
    /\ UNCHANGED <<prefs, toggles, register_calls, prefs_at_register, nonRegistryVars>>

\* QP_OT_toggle_module.execute on the property module_prop.
ToggleModule(module_prop) ==
    /\ addon_state = "registered"
    /\ "QP_OT_toggle_module" \in bl_classes
    /\ toggles < MaxToggles
    /\ module_prop \in DOMAIN prefs
    /\ prefs' = [prefs EXCEPT ![module_prop] = ~@]
    /\ toggles' = toggles + 1
    /\ UNCHANGED <<addon_state, mods, bl_classes, bl_handlers, bl_props, bl_menus,
                   register_calls, prefs_at_register, nonAddonVars>>

\* The functions that the modules' register() give to bpy.app.timers.
ModuleTimers == {"delayed_init", "force_redraw_on_switch", "<lambda>"}

\* bpy.app.timers calls delayed_init, force_redraw_on_switch or the lambda of
\* qp_image_updater, whether the add-on is still registered or not: each
\* returns None, which ends that one timer; the timers of the other
\* registrations of the function stay.  With no custom pie menu
\* delayed_init registers no class.
ModuleTimer(fn) ==
    /\ main_pc = Idle
    /\ BagIn(Timer(fn, 0), timers)
    /\ timers' = timers (-) SetToBag({Timer(fn, 0)})
    /\ UNCHANGED <<addonVars, mods, status_file, _pending_timer, nonRegistryVars>>

NextAddon ==
    \/ AddonRegister
    \/ AddonUnregister
    \/ \E fn \in ModuleTimers : ModuleTimer(fn)
    \/ \E module_prop \in ModuleProps : ToggleModule(module_prop)

SpecAddon == InitAddon /\ [][NextAddon]_vars

(***************************************************************************)
(* updater.py and quick_asset_library.py: the worker threads               *)
(***************************************************************************)
\* The calls that the function target makes, in the thread th, into the
\* APIs of the set apis.
Called(th, target, apis) ==
    api_calls \cup {[thread |-> th, target |-> target, api |-> a] : a \in apis}

\* The local variables of _do_check: the newer version and the download URL
\* that the manifest named (remote_ver, "" for a version that is not newer),
\* and what _load_updater_state returned (persistent).
NoLocals == [version |-> "", url |-> "", persistent |-> DefaultState]

\* The number of threads started so far.
Spawned == spawned["_do_check"] + spawned["_download_addon"] + spawned["worker"]

\* One more thread of the target fits the bounds.
MayStart(target) ==
    /\ Spawned < MaxThreads
    /\ target = "_do_check" => spawned[target] < MaxChecks

\* threading.Thread(target=..., daemon=True).start()
Started(target, pc, arg) ==
    threads \cup {[id |-> Spawned + 1, target |-> target, pc |-> pc, arg |-> arg,
                   local |-> NoLocals]}

Counted(target) == [spawned EXCEPT ![target] = @ + 1]

\* QP_Tools_Preferences declares no property auto_check_updates (the updater's
\* panels draw a checkbox for it, which Blender leaves out): reading
\* prefs.auto_check_updates raises AttributeError.
prefs_hasattr_auto_check_updates == FALSE

\* updater._delayed_check, the timer that register() sets: it returns when
\* there is no online access, and when reading the preference raises; else it
\* starts a check unless one was made or is running.
DelayedCheck ==
    /\ main_pc = Idle
    /\ BagIn(Timer("_delayed_check", 0), timers)
    /\ _pending_timer' = FALSE
    /\ IF online_access /\ prefs_hasattr_auto_check_updates
          /\ ~(_update_state.checked \/ _update_state.checking)
       THEN /\ MayStart("_do_check")
            /\ threads' = Started("_do_check", "start", "auto")
            /\ spawned' = Counted("_do_check")
       ELSE UNCHANGED <<threads, spawned>>
    /\ timers' = timers (-) SetToBag({Timer("_delayed_check", 0)})
    /\ api_calls' = Called("main", "_delayed_check",
                           {"bpy.app"} \cup IF online_access THEN {"bpy.context"} ELSE {})
    /\ UNCHANGED <<_update_state, _manual_check, _progress_timer_running,
                   _file_scan_status, _file_scan_cache, file_mtime, online_access,
                   main_pc, updater_state_json, check_log,
                   nonWorkerVars>>

\* QP_OT_check_updates.execute up to its test of _update_state["checking"];
\* with no online access, and while a check says it is running, it returns
\* CANCELLED.
CheckUpdates ==
    /\ main_pc = Idle
    /\ online_access
    /\ ~_update_state.checking
    /\ MayStart("_do_check")
    /\ main_pc' = Timer("QP_OT_check_updates.execute", 203)
    /\ api_calls' = Called("main", "QP_OT_check_updates.execute", {"bpy.app"})
    /\ UNCHANGED <<_update_state, _manual_check, _pending_timer,
                   _progress_timer_running, timers, threads, spawned,
                   _file_scan_status, _file_scan_cache, file_mtime, online_access,
                   updater_state_json, check_log, nonWorkerVars>>

\* QP_OT_check_updates.execute goes on, one statement at a time (the line of
\* updater.py is main_pc.arg): the four assignments to _update_state, the
\* assignment to _manual_check, and the start of the thread, which raises
\* RuntimeError when no thread can be started (ok is false).  The threads
\* that are running take their steps in between.
CheckUpdatesStep(ok) ==
    /\ main_pc.fn = "QP_OT_check_updates.execute"
    /\ \E line \in {main_pc.arg} :
          /\ _update_state' =
                CASE line = 203 -> [_update_state EXCEPT !.checked = FALSE]
                  [] line = 204 -> [_update_state EXCEPT !.checking = FALSE]
                  [] line = 205 -> [_update_state EXCEPT !.error = ""]
                  [] line = 206 -> [_update_state EXCEPT !.download_status = ""]
                  [] OTHER -> _update_state
          /\ _manual_check' = IF line = 207 THEN TRUE ELSE _manual_check
          /\ IF line = 209
             THEN /\ threads' = IF ok THEN Started("_do_check", "start", "manual")
                                ELSE threads
                  /\ spawned' = IF ok THEN Counted("_do_check") ELSE spawned
                  /\ main_pc' = Idle
             ELSE /\ main_pc' = Timer(main_pc.fn, IF line = 207 THEN 209 ELSE line + 1)
                  /\ UNCHANGED <<threads, spawned>>
    /\ UNCHANGED <<_pending_timer, _progress_timer_running, timers, _file_scan_status,
                   _file_scan_cache, file_mtime, online_access, api_calls,
                   updater_state_json, check_log, nonWorkerVars>>

\* _do_check in its thread: the first two assignments.
DoCheckStart(t) ==
    /\ t \in threads /\ t.target = "_do_check" /\ t.pc = "start"
    /\ _update_state' = [_update_state EXCEPT !.checking = TRUE, !.error = ""]
    /\ threads' = (threads \ {t}) \cup {[t EXCEPT !.pc = "request"]}
    /\ UNCHANGED <<_manual_check, _pending_timer, _progress_timer_running, timers,
                   spawned, _file_scan_status, _file_scan_cache, file_mtime,
                   online_access, api_calls, main_pc, updater_state_json, check_log,
                   nonWorkerVars>>

\* _do_check: the request, "persistent = _load_updater_state()" and the
\* reading of the manifest's version. The request or the parsing of the
\* response fails ("error"); or the response is JSON that is no object, and
\* data.get raises after the state file was read ("not_object"); or the
\* manifest names a newer version (with a download URL or none) or a version
\* that is not newer ("current").
DoCheckRequest(t, outcome, remote_ver, url) ==
    /\ t \in threads /\ t.target = "_do_check" /\ t.pc = "request"
    /\ CASE outcome = "error" ->
              /\ _update_state' = [_update_state EXCEPT !.error = "Network error"]
              /\ api_calls' = Called("worker", "_do_check", {"urllib"})
              /\ threads' = (threads \ {t}) \cup {[t EXCEPT !.pc = "finally"]}
         [] outcome = "not_object" ->
              /\ _update_state' = [_update_state EXCEPT !.error = "AttributeError"]
              /\ api_calls' = Called("worker", "_do_check", {"urllib", "bpy.utils", "os"})
              /\ threads' = (threads \ {t}) \cup {[t EXCEPT !.pc = "finally"]}
         [] outcome \in {"newer", "current"} ->
              /\ threads' = (threads \ {t}) \cup
                    {[t EXCEPT !.pc = "loaded",
                               !.local = [version |-> IF outcome = "newer"
                                                      THEN remote_ver ELSE "",
                                          url |-> IF outcome = "newer" THEN url ELSE "",
                                          persistent |-> _load_updater_state(updater_state_json)]]}
              /\ api_calls' = Called("worker", "_do_check", {"urllib", "bpy.utils", "os"})
              /\ UNCHANGED _update_state
    /\ UNCHANGED <<_manual_check, _pending_timer, _progress_timer_running, timers,
                   spawned, _file_scan_status, _file_scan_cache, file_mtime,
                   online_access, main_pc, check_log,
                   updater_state_json, nonWorkerVars>>

\* _do_check: the if statement on remote_ver, one statement at a time (the
\* threads and the main thread take their steps in between): the three
\* assignments for a newer version, the test of _manual_check and the
\* assignment to addon_dismissed of its branch, where persistent.get raises
\* when the state file held no object; or the two assignments of the else
\* branch.
DoCheckEvaluate(t) ==
    /\ t \in threads /\ t.target = "_do_check"
    /\ t.pc \in {"loaded", "remote_version", "download_url", "if_manual",
                 "dismissed_manual", "dismissed_auto", "else_dismissed"}
    /\ CASE t.pc = "loaded" ->
              /\ _update_state' = [_update_state EXCEPT
                                      !.addon_update_available = t.local.version # ""]
              /\ threads' = (threads \ {t}) \cup
                    {[t EXCEPT !.pc = IF t.local.version # "" THEN "remote_version"
                                      ELSE "else_dismissed"]}
              /\ UNCHANGED check_log
         [] t.pc = "remote_version" ->
              /\ _update_state' = [_update_state EXCEPT
                                      !.addon_remote_version = t.local.version]
              /\ threads' = (threads \ {t}) \cup {[t EXCEPT !.pc = "download_url"]}
              /\ UNCHANGED check_log
         [] t.pc = "download_url" ->
              /\ _update_state' = [_update_state EXCEPT
                                      !.addon_download_url = t.local.url]
              /\ threads' = (threads \ {t}) \cup {[t EXCEPT !.pc = "if_manual"]}
              /\ UNCHANGED check_log
         [] t.pc = "if_manual" ->
              /\ threads' = (threads \ {t}) \cup
                    {[t EXCEPT !.pc = IF _manual_check THEN "dismissed_manual"
                                      ELSE "dismissed_auto"]}
              /\ UNCHANGED <<_update_state, check_log>>
         [] t.pc = "dismissed_manual" ->
              /\ _update_state' = [_update_state EXCEPT !.addon_dismissed = FALSE]
              /\ check_log' = [by |-> t.arg, found |-> t.local.version,
                               dismissed |-> t.local.persistent.dismissed,
                               addon_dismissed |-> FALSE]
              /\ threads' = (threads \ {t}) \cup {[t EXCEPT !.pc = "save"]}
         [] t.pc = "dismissed_auto" /\ t.local.persistent.type # "dict" ->
              /\ _update_state' = [_update_state EXCEPT !.error = "AttributeError"]
              /\ threads' = (threads \ {t}) \cup {[t EXCEPT !.pc = "finally"]}
              /\ UNCHANGED check_log
         [] t.pc = "dismissed_auto" /\ t.local.persistent.type = "dict" ->
              /\ \E dismissed \in {t.local.version = t.local.persistent.dismissed} :
                    /\ _update_state' = [_update_state EXCEPT
                                            !.addon_dismissed = dismissed]
                    /\ check_log' = [by |-> t.arg, found |-> t.local.version,
                                     dismissed |-> t.local.persistent.dismissed,
                                     addon_dismissed |-> dismissed]
              /\ threads' = (threads \ {t}) \cup {[t EXCEPT !.pc = "save"]}
         [] t.pc = "else_dismissed" ->
              /\ _update_state' = [_update_state EXCEPT !.addon_dismissed = FALSE]
              /\ threads' = (threads \ {t}) \cup {[t EXCEPT !.pc = "save"]}
              /\ UNCHANGED check_log
    /\ UNCHANGED <<_manual_check, _pending_timer, _progress_timer_running, timers,
                   spawned, _file_scan_status, _file_scan_cache, file_mtime,
                   online_access, api_calls, main_pc,
                   updater_state_json, nonWorkerVars>>

\* _do_check: "persistent['last_check'] = ..." (which raises when the state
\* file held no object) and "_save_updater_state(persistent)": open(path,
\* 'w') empties the file, then json.dump and the close write what was loaded.
\* When the file cannot be opened or written (ok is false) the OSError is
\* swallowed and the file stays as it is.
DoCheckSave(t, ok) ==
    /\ t \in threads /\ t.target = "_do_check" /\ t.pc \in {"save", "dump"}
    /\ CASE t.pc = "save" /\ t.local.persistent.type # "dict" ->
              /\ _update_state' = [_update_state EXCEPT !.error = "TypeError"]
              /\ threads' = (threads \ {t}) \cup {[t EXCEPT !.pc = "finally"]}
              /\ UNCHANGED updater_state_json
         [] t.pc = "save" /\ t.local.persistent.type = "dict" ->
              /\ updater_state_json' = IF ok THEN EmptiedState ELSE updater_state_json
              /\ threads' = (threads \ {t}) \cup
                    {[t EXCEPT !.pc = IF ok THEN "dump" ELSE "finally",
                               !.local.persistent.last_check = TRUE]}
              /\ UNCHANGED _update_state
         [] t.pc = "dump" ->
              /\ updater_state_json' =
                    IF ok THEN DumpedState(updater_state_json, t.local.persistent)
                    ELSE updater_state_json
              /\ threads' = (threads \ {t}) \cup {[t EXCEPT !.pc = "finally"]}
              /\ UNCHANGED _update_state
    /\ UNCHANGED <<_manual_check, _pending_timer, _progress_timer_running, timers,
                   spawned, _file_scan_status, _file_scan_cache, file_mtime,
                   online_access, api_calls, main_pc, check_log,
                   nonWorkerVars>>

\* _do_check: the finally block, one statement at a time: checked, then
\* checking, then _manual_check and the timer of _trigger_redraw, after which
\* the thread ends.
DoCheckFinally(t) ==
    /\ t \in threads /\ t.target = "_do_check"
    /\ t.pc \in {"finally", "finally_checking", "finally_manual"}
    /\ CASE t.pc = "finally" ->
              /\ _update_state' = [_update_state EXCEPT !.checked = TRUE]
              /\ threads' = (threads \ {t}) \cup {[t EXCEPT !.pc = "finally_checking"]}
              /\ UNCHANGED <<_manual_check, timers, api_calls>>
         [] t.pc = "finally_checking" ->
              /\ _update_state' = [_update_state EXCEPT !.checking = FALSE]
              /\ threads' = (threads \ {t}) \cup {[t EXCEPT !.pc = "finally_manual"]}
              /\ UNCHANGED <<_manual_check, timers, api_calls>>
         [] t.pc = "finally_manual" ->
              /\ _manual_check' = FALSE
              /\ timers' = timers (+) SetToBag({Timer("_trigger_redraw", 0)})
              /\ api_calls' = Called("worker", "_do_check", {"bpy.app.timers"})
              /\ threads' = threads \ {t}
              /\ UNCHANGED _update_state
    /\ UNCHANGED <<_pending_timer, _progress_timer_running, spawned, _file_scan_status,
                   _file_scan_cache, file_mtime, online_access,
                   main_pc, updater_state_json, check_log,
                   nonWorkerVars>>

\* updater._trigger_redraw, run once by its timer.
TriggerRedraw ==
    /\ main_pc = Idle
    /\ BagIn(Timer("_trigger_redraw", 0), timers)
    /\ timers' = timers (-) SetToBag({Timer("_trigger_redraw", 0)})
    /\ api_calls' = Called("main", "_trigger_redraw", {"bpy.context"})
    /\ UNCHANGED <<_update_state, _manual_check, _pending_timer,
                   _progress_timer_running, threads, spawned, _file_scan_status,
                   _file_scan_cache, file_mtime, online_access,
                   main_pc, updater_state_json, check_log,
                   nonWorkerVars>>

\* QP_OT_update_addon.execute: it sets download_status, registers the
\* progress timer and starts the download thread; when Thread.start() raises
\* RuntimeError (ok is false) the status and the timer stay as they were set.
UpdateAddon(ok) ==
    /\ main_pc = Idle
    /\ online_access
    /\ _update_state.addon_download_url # ""
    /\ _update_state.download_status \notin {"downloading", "installing"}
    /\ MayStart("_download_addon")
    /\ _update_state' = [_update_state EXCEPT !.download_status = "downloading"]
    /\ _progress_timer_running' = TRUE
    /\ timers' = IF _progress_timer_running THEN timers
                 ELSE timers (+) SetToBag({Timer("_progress_redraw_timer", 0)})
    /\ threads' = IF ok THEN Started("_download_addon", "download",
                                     _update_state.addon_download_url)
                  ELSE threads
    /\ spawned' = IF ok THEN Counted("_download_addon") ELSE spawned
    /\ api_calls' = Called("main", "QP_OT_update_addon.execute",
                           {"bpy.app"} \cup IF _progress_timer_running THEN {}
                                            ELSE {"bpy.app.timers"})
    /\ UNCHANGED <<_manual_check, _pending_timer, _file_scan_status, _file_scan_cache,
                   file_mtime, online_access, main_pc, updater_state_json, check_log,
                   nonWorkerVars>>

\* QP_OT_update_addon._download_addon in its thread: the archive arrives and
\* the installation is handed to a timer, or the download fails.
DownloadAddon(t, ok) ==
    /\ t \in threads /\ t.target = "_download_addon"
    /\ IF ok
       THEN /\ timers' = timers (+) SetToBag({Timer("_install_callback", t.id)})
            /\ api_calls' = Called("worker", "_download_addon",
                                   {"tempfile", "urllib", "os", "bpy.app.timers"})
            /\ UNCHANGED _update_state
       ELSE /\ _update_state' = [_update_state EXCEPT !.download_status = "error",
                                                     !.error = "Download failed"]
            /\ api_calls' = Called("worker", "_download_addon",
                                   {"tempfile", "urllib", "os"})
            /\ UNCHANGED timers
    /\ threads' = threads \ {t}
    /\ UNCHANGED <<_manual_check, _pending_timer, _progress_timer_running, spawned,
                   _file_scan_status, _file_scan_cache, file_mtime, online_access,
                   main_pc, updater_state_json, check_log,
                   nonWorkerVars>>

\* _install_callback, called by its timer: QP_OT_update_addon._install_addon
\* begins by setting download_status.
InstallCallback(arg) ==
    /\ main_pc = Idle
    /\ BagIn(Timer("_install_callback", arg), timers)
    /\ main_pc' = Timer("_install_callback", arg)
    /\ _update_state' = [_update_state EXCEPT !.download_status = "installing"]
    /\ UNCHANGED <<_manual_check, _pending_timer, _progress_timer_running, timers,
                   threads, spawned, _file_scan_status, _file_scan_cache, file_mtime,
                   online_access, api_calls, updater_state_json, check_log,
                   nonWorkerVars>>

\* _install_addon replaces the files of the add-on's directory, or fails and
\* restores them; _install_callback returns None, which ends its timer.
InstallAddon(ok) ==
    /\ main_pc # Idle
    /\ main_pc.fn = "_install_callback"
    /\ main_pc' = Idle
    /\ timers' = timers (-) SetToBag({main_pc})
    /\ _update_state' =
          IF ok THEN [_update_state EXCEPT !.download_status = "done",
                                           !.addon_update_available = FALSE]
          ELSE [_update_state EXCEPT !.download_status = "error",
                                     !.error = "Install failed"]
    /\ api_calls' = Called("main", "_install_addon",
                           {"bpy.utils", "zipfile", "tempfile", "shutil", "addon_dir", "os"})
    /\ UNCHANGED <<_manual_check, _pending_timer, _progress_timer_running, threads,
                   spawned, _file_scan_status, _file_scan_cache, file_mtime,
                   online_access, updater_state_json,
                   check_log, nonWorkerVars>>

\* The values of _update_state["addon_remote_version"], numbered.
VersionSeq == <<"", "2.3.0", "2.4.0">>

VersionIndex(v) == CHOOSE i \in DOMAIN VersionSeq : VersionSeq[i] = v

\* The dict that QP_OT_dismiss_update.execute saves, numbered.
DismissArg(d) == VersionIndex(d.dismissed) * 2 + (IF d.last_check THEN 1 ELSE 0)

DismissData(arg) == StateDict(arg % 2 = 1, VersionSeq[arg \div 2])

\* QP_OT_dismiss_update.execute, from its button or from a script: it loads
\* the state file and puts the remote version into what it loaded
\* (main_pc.arg is the number of that dict).  The assignment raises when
\* the state file holds no object, before anything is changed.
DismissUpdate ==
    /\ main_pc = Idle
    /\ LET persistent == _load_updater_state(updater_state_json)
       IN  main_pc' = IF persistent.type # "dict" THEN Idle
                      ELSE Timer("QP_OT_dismiss_update.execute",
                                 DismissArg([persistent EXCEPT !.dismissed =
                                                _update_state.addon_remote_version]))
    /\ api_calls' = Called("main", "QP_OT_dismiss_update.execute", {"bpy.utils", "os"})
    /\ UNCHANGED <<_update_state, _manual_check, _pending_timer,
                   _progress_timer_running, timers, threads, spawned,
                   _file_scan_status, _file_scan_cache, file_mtime,
                   online_access, updater_state_json, check_log,
                   nonWorkerVars>>

\* QP_OT_dismiss_update.execute goes on, the threads taking their steps in
\* between: addon_dismissed is set; _save_updater_state opens the file, which
\* empties it; json.dump and the close write the dict.  When the file cannot
\* be opened or written (ok is false) it stays as it is.
DismissUpdateSave(ok) ==
    /\ main_pc.fn \in {"QP_OT_dismiss_update.execute", "_save_updater_state", "json.dump"}
    /\ CASE main_pc.fn = "QP_OT_dismiss_update.execute" ->
              /\ _update_state' = [_update_state EXCEPT !.addon_dismissed = TRUE]
              /\ main_pc' = Timer("_save_updater_state", main_pc.arg)
              /\ UNCHANGED updater_state_json
         [] main_pc.fn = "_save_updater_state" ->
              /\ updater_state_json' = IF ok THEN EmptiedState ELSE updater_state_json
              /\ main_pc' = IF ok THEN Timer("json.dump", main_pc.arg) ELSE Idle
              /\ UNCHANGED _update_state
         [] main_pc.fn = "json.dump" ->
              /\ updater_state_json' =
                    IF ok THEN DumpedState(updater_state_json, DismissData(main_pc.arg))
                    ELSE updater_state_json
              /\ main_pc' = Idle
              /\ UNCHANGED _update_state
    /\ UNCHANGED <<_manual_check, _pending_timer, _progress_timer_running, timers,
                   threads, spawned, _file_scan_status, _file_scan_cache, file_mtime,
                   online_access, api_calls, check_log, nonWorkerVars>>

\* updater._progress_redraw_timer: it stops once no download is under way.
ProgressRedrawTimer ==
    /\ main_pc = Idle
    /\ BagIn(Timer("_progress_redraw_timer", 0), timers)
    /\ IF _update_state.download_status \notin {"downloading", "installing"}
       THEN /\ _progress_timer_running' = FALSE
            /\ timers' = timers (-) SetToBag({Timer("_progress_redraw_timer", 0)})
       ELSE UNCHANGED <<_progress_timer_running, timers>>
    /\ api_calls' = Called("main", "_progress_redraw_timer", {"bpy.context"})
    /\ UNCHANGED <<_update_state, _manual_check, _pending_timer, threads, spawned,
                   _file_scan_status, _file_scan_cache, file_mtime, online_access,
                   main_pc, updater_state_json, check_log,
                   nonWorkerVars>>

\* dict.get(key) of a status or cache dictionary ("" for None).
Get(d, key) == IF key \in DOMAIN d THEN d[key] ELSE ""

\* scan_names_cached, called by a draw of the panel through scan_conflicts
\* on a file whose names are not cached for its current mtime: the main
\* thread goes on to scan_names_background and its "with _file_scan_lock".
ScanNamesCached(key) ==
    /\ main_pc = Idle
    /\ file_mtime[key] # Missing
    /\ ~(key \in DOMAIN _file_scan_cache /\ _file_scan_cache[key].mtime = file_mtime[key])
    /\ MayStart("worker")
    /\ main_pc' = Timer("scan_names_background", KeyIndex(key))
    /\ api_calls' = Called("main", "scan_names_cached", {"os"})
    /\ UNCHANGED <<_update_state, _manual_check, _pending_timer,
                   _progress_timer_running, timers, threads, spawned,
                   _file_scan_status, _file_scan_cache, file_mtime,
                   online_access, updater_state_json,
                   check_log, nonWorkerVars>>

\* scan_names_background without its test of the pending status.
ScanNamesBackgroundUnguarded ==
    /\ main_pc.fn = "scan_names_background"
    /\ \E key \in {ScanKeySeq[main_pc.arg]} :
          _file_scan_status' = (key :> "pending") @@ _file_scan_status
    /\ main_pc' = Timer("Thread.start", main_pc.arg)
    /\ UNCHANGED <<_update_state, _manual_check, _pending_timer,
                   _progress_timer_running, timers, threads, spawned,
                   _file_scan_cache, file_mtime, online_access, api_calls,
                   updater_state_json, check_log, nonWorkerVars>>

\* scan_names_background once it holds _file_scan_lock: it returns when a
\* scan of the key is pending, and else sets the status, releases the lock
\* and goes on to start a worker.
ScanNamesBackground ==
    /\ main_pc.fn = "scan_names_background"
    /\ \E key \in {ScanKeySeq[main_pc.arg]} :
          IF Get(_file_scan_status, key) = "pending"
          THEN /\ main_pc' = Idle
               /\ UNCHANGED _file_scan_status
          ELSE /\ _file_scan_status' = (key :> "pending") @@ _file_scan_status
               /\ main_pc' = Timer("Thread.start", main_pc.arg)
    /\ UNCHANGED <<_update_state, _manual_check, _pending_timer,
                   _progress_timer_running, timers, threads, spawned,
                   _file_scan_cache, file_mtime, online_access, api_calls,
                   updater_state_json, check_log, nonWorkerVars>>

\* threading.Thread(target=worker, daemon=True).start() at the end of
\* scan_names_background: the worker thread runs, or start() raises
\* RuntimeError (the system gives no more threads) and the exception leaves
\* scan_names_cached and the draw that called it.
ScanThreadStart(ok) ==
    /\ main_pc.fn = "Thread.start"
    /\ IF ok
       THEN /\ threads' = Started("worker", "load", ScanKeySeq[main_pc.arg])
            /\ spawned' = Counted("worker")
       ELSE UNCHANGED <<threads, spawned>>
    /\ main_pc' = Idle
    /\ UNCHANGED <<_update_state, _manual_check, _pending_timer,
                   _progress_timer_running, timers, _file_scan_status,
                   _file_scan_cache, file_mtime, online_access, api_calls,
                   updater_state_json, check_log, nonWorkerVars>>

\* worker() of scan_names_background in its thread: it opens the library
\* with bpy.data.libraries.load and reads the names, or fails.
ScanLoad(t, status) ==
    /\ t \in threads /\ t.target = "worker" /\ t.pc = "load"
    /\ file_mtime[t.arg] = Missing => status = "error"
    /\ api_calls' = Called("worker", "worker", {"bpy.data"})
    /\ threads' = (threads \ {t}) \cup {[t EXCEPT !.pc = status]}
    /\ UNCHANGED <<_update_state, _manual_check, _pending_timer,
                   _progress_timer_running, timers, spawned, _file_scan_status,
                   _file_scan_cache, file_mtime, online_access,
                   main_pc, updater_state_json, check_log,
                   nonWorkerVars>>

\* worker(): under _file_scan_lock it stores the names and the status; the
\* thread ends.  os.path.getmtime is called again for the cache entry, outside
\* the try block: when the file is gone it raises, and the thread ends with
\* nothing stored.
ScanStore(t) ==
    /\ t \in threads /\ t.target = "worker" /\ t.pc \in {"done", "error"}
    /\ IF file_mtime[t.arg] = Missing
       THEN UNCHANGED <<_file_scan_cache, _file_scan_status>>
       ELSE /\ _file_scan_cache' =
                  (t.arg :> [mtime |-> file_mtime[t.arg],
                             names |-> IF t.pc = "done" THEN FileNames ELSE {}])
                      @@ _file_scan_cache
            /\ _file_scan_status' = (t.arg :> t.pc) @@ _file_scan_status
    /\ api_calls' = Called("worker", "worker", {"os"})
    /\ threads' = threads \ {t}
    /\ UNCHANGED <<_update_state, _manual_check, _pending_timer,
                   _progress_timer_running, timers, spawned, file_mtime,
                   online_access, main_pc, updater_state_json, check_log,
                   nonWorkerVars>>

\* The library file is written (by the background Blender process, which
\* also creates a file that is missing, or by the user): os.path.getmtime of
\* the file is the new mtime, for every key of the file.
TouchFile(filepath, mtime) ==
    /\ \E key \in ScanKeys : key[1] = filepath /\ file_mtime[key] < mtime
    /\ file_mtime' = [key \in ScanKeys |->
                         IF key[1] = filepath THEN mtime ELSE file_mtime[key]]
    /\ UNCHANGED <<_update_state, _manual_check, _pending_timer,
                   _progress_timer_running, timers, threads, spawned,
                   _file_scan_status, _file_scan_cache, online_access,
                   api_calls, main_pc, updater_state_json, check_log,
                   nonWorkerVars>>

\* The library file is deleted or moved away: the keys of the file have no
\* mtime any more.
RemoveFile(filepath) ==
    /\ \E key \in ScanKeys : key[1] = filepath /\ file_mtime[key] # Missing
    /\ file_mtime' = [key \in ScanKeys |->
                         IF key[1] = filepath THEN Missing ELSE file_mtime[key]]
    /\ UNCHANGED <<_update_state, _manual_check, _pending_timer,
                   _progress_timer_running, timers, threads, spawned,
                   _file_scan_status, _file_scan_cache, online_access,
                   api_calls, main_pc, updater_state_json, check_log,
                   nonWorkerVars>>

\* The update checks, the download and the installation. The writes of the
\* state file succeed here; NextDismiss has the failing ones as well.
NextUpdater ==
    \/ DelayedCheck
    \/ CheckUpdates
    \/ \E ok \in BOOLEAN : CheckUpdatesStep(ok)
    \/ \E t \in threads : DoCheckStart(t)
    \/ \E t \in threads, outcome \in {"newer", "current", "not_object", "error"},
          url \in {"", "url"} : DoCheckRequest(t, outcome, "2.3.0", url)
    \/ \E t \in threads : DoCheckEvaluate(t)
    \/ \E t \in threads : DoCheckSave(t, TRUE)
    \/ \E t \in threads : DoCheckFinally(t)
    \/ TriggerRedraw
    \/ \E ok \in BOOLEAN : UpdateAddon(ok)
    \/ \E t \in threads, ok \in BOOLEAN : DownloadAddon(t, ok)
    \/ \E arg \in 1..MaxThreads : InstallCallback(arg)
    \/ \E ok \in BOOLEAN : InstallAddon(ok)
    \/ ProgressRedrawTimer

NextScans ==
    \/ \E key \in ScanKeys : ScanNamesCached(key)
    \/ ScanNamesBackground
    \/ \E ok \in BOOLEAN : ScanThreadStart(ok)
    \/ \E t \in threads, status \in {"done", "error"} : ScanLoad(t, status)
    \/ \E t \in threads : ScanStore(t)
    \/ \E key \in ScanKeys, mtime \in 0..MaxMtime : TouchFile(key[1], mtime)
    \/ \E key \in ScanKeys : RemoveFile(key[1])

InitWorkers ==
    /\ WorkersAtStart /\ updater_state_json = NoStateFile
    /\ CleanAtRest /\ ModulesAtImport /\ AddonAtRest
    /\ BgAtRest /\ PanelAtRest /\ MatAtRest /\ CacheAtRest

\* The add-on after _delayed_check has run (it starts no thread). An earlier
\* session may have dismissed a version, or the state file holds something else
\* than the add-on wrote.
InitDismiss ==
    /\ WorkersAt(FALSE)
    /\ updater_state_json \in
          {NoStateFile, NotAnObject, StateJson(StateDict(TRUE, "2.3.0"))}
    /\ CleanAtRest /\ ModulesAtImport /\ AddonAtRest
    /\ BgAtRest /\ PanelAtRest /\ MatAtRest /\ CacheAtRest

\* The update checks and the dismissal of their notification.
NextDismiss ==
    \/ CheckUpdates
    \/ \E ok \in BOOLEAN : CheckUpdatesStep(ok)
    \/ \E t \in threads : DoCheckStart(t)
    \/ \E t \in threads, outcome \in {"newer", "current", "not_object", "error"},
          remote_ver \in RemoteVersions : DoCheckRequest(t, outcome, remote_ver, "url")
    \/ \E t \in threads : DoCheckEvaluate(t)
    \/ \E t \in threads, ok \in BOOLEAN : DoCheckSave(t, ok)
    \/ \E t \in threads : DoCheckFinally(t)
    \/ TriggerRedraw
    \/ DismissUpdate
    \/ \E ok \in BOOLEAN : DismissUpdateSave(ok)

SpecDismiss == InitDismiss /\ [][NextDismiss]_vars

\* The updater's threads and timers, and the name scans' threads.
SpecUpdater == InitWorkers /\ [][NextUpdater]_vars

SpecScans == InitWorkers /\ [][NextScans]_vars

\* The main thread goes on inside a call, and a started worker thread runs
\* on: it loads, then stores.
SpecScansFair ==
    /\ InitWorkers
    /\ [][NextScans]_vars
    /\ WF_vars(ScanNamesBackground)
    /\ WF_vars(\E ok \in BOOLEAN : ScanThreadStart(ok))
    /\ WF_vars(\E t \in threads, status \in {"done", "error"} : ScanLoad(t, status))
    /\ WF_vars(\E t \in threads : ScanStore(t))

(***************************************************************************)
(* quick_asset_library.py: the background Blender process, its status file *)
(* and the timers that watch it                                            *)
(***************************************************************************)
\* is_background_process_running(): the file's "running" entry; a missing
\* file and one that json.load rejects both give False.
is_background_process_running(f) ==
    IF f.state = "json" THEN f.running ELSE FALSE

\* The update_status calls of the background script, in order.
ChildStages ==
    << StatusJson(TRUE, "Starting..."),
       StatusJson(TRUE, "Importing assets..."),
       StatusJson(TRUE, "Processing assets..."),
       StatusJson(TRUE, "Saving..."),
       StatusJson(FALSE, "Complete") >>

BgTimers(i) == {Timer("read_output", i), Timer("check_process_status", i)}

MonitorRegistered ==
    \E i \in 1..MaxStarts : BagIn(Timer("check_process_status", i), timers)

\* The subprocesses that have not exited.
Running == {i \in 1..MaxStarts : proc[i] = "running"}

\* ASSET_OT_add_to_library.execute -> add_to_existing ->
\* start_background_process.  The panel's button is disabled while
\* is_background_process_running(), and a click on it is handled after the
\* timers of an earlier start have run; poll() is module_enabled and execute
\* has no test of its own, so a call of the operator from a script, a
\* shortcut or the operator search starts the process whenever the main
\* thread is free.
Invocable(via) ==
    /\ main_pc = Idle
    /\ starts < MaxStarts
    /\ via = "panel" =>
          /\ ~is_background_process_running(status_file)
          /\ Running = {}
          /\ \A i \in 1..MaxStarts : BgTimers(i) \cap BagToSet(timers) = {}

\* start_background_process up to "with open(status_file, 'w') as f", which
\* empties the file.
StartBackgroundProcess(via) ==
    /\ Invocable(via)
    /\ status_file' = Truncated
    /\ main_pc' = Timer("start_background_process", 0)
    /\ UNCHANGED <<proc, child, start_ok, starts, timers, nonBgMainVars>>

\* start_background_process from json.dump on: it writes the status file,
\* starts the subprocess and registers read_output and then
\* check_process_status; when Popen raises, the file is already written and
\* the method returns False.
start_background_process(ok) ==
    /\ starts' = starts + 1
    /\ status_file' = Dumped(status_file, StatusJson(TRUE, "Starting..."))
    /\ start_ok' = ok
    /\ IF ok
       THEN /\ proc' = [proc EXCEPT ![starts'] = "running"]
            /\ child' = [child EXCEPT ![starts'] = ChildIdle]
            /\ timers' = timers (+) SetToBag(BgTimers(starts'))
       ELSE UNCHANGED <<proc, child, timers>>

StartBackgroundProcessDump(ok) ==
    /\ main_pc.fn = "start_background_process"
    /\ start_background_process(ok)
    /\ main_pc' = Idle
    /\ UNCHANGED nonBgMainVars

\* The variables that ASSET_OT_add_to_library.execute leaves alone before it
\* enters start_background_process.
nonExecuteVars ==
    <<bgVars, timers, _update_state, _manual_check, _pending_timer,
      _progress_timer_running, _file_scan_cache, file_mtime, online_access,
      updater_state_json, check_log,
      cleanVars, modVars, addonVars, cacheVars, panelVars, matVars>>

\* ASSET_OT_add_to_library.execute adding the selection to an existing file,
\* up to its test of the scan status: it returns CANCELLED while the key's
\* scan is pending, and else calls scan_conflicts.
Execute(via, key, names, conflict_action) ==
    /\ Invocable(via)
    /\ Get(_file_scan_status, key) # "pending"
    /\ MayStart("worker")
    /\ main_pc' = Timer("scan_conflicts", CallIndex(<<key, names, conflict_action>>))
    /\ UNCHANGED <<_file_scan_status, threads, spawned, api_calls, nonExecuteVars>>

\* AssetLibrarySettings.scan_conflicts, its test of os.path.exists: no
\* conflicts for a file that is missing, with which execute goes on to
\* add_to_existing; else it calls scan_names_cached.
ScanConflicts ==
    /\ main_pc.fn = "scan_conflicts"
    /\ \E c \in {ExecuteCall(main_pc.arg)} :
          main_pc' = IF file_mtime[c[1]] = Missing
                     THEN Timer("add_to_existing", 0)
                     ELSE Timer("scan_names_cached", main_pc.arg)
    /\ api_calls' = Called("main", "scan_conflicts", {"os"})
    /\ UNCHANGED <<_file_scan_status, threads, spawned, nonExecuteVars>>

\* scan_names_cached called by scan_conflicts in execute: set() when
\* os.path.getmtime raises; the cached names when the cache entry has the
\* file's mtime, and then with conflicts and SKIP execute returns CANCELLED;
\* else scan_names_background, which returns under its lock when a scan is
\* pending and else sets the status and goes on to start a worker.
ExecuteScanNamesCached ==
    /\ main_pc.fn = "scan_names_cached"
    /\ \E c \in {ExecuteCall(main_pc.arg)} :
          LET key == c[1]
              cached == /\ key \in DOMAIN _file_scan_cache
                        /\ _file_scan_cache[key].mtime = file_mtime[key]
          IN  IF file_mtime[key] = Missing
              THEN /\ main_pc' = Timer("add_to_existing", 0)
                   /\ UNCHANGED _file_scan_status
              ELSE IF cached
              THEN /\ main_pc' = IF c[2] \cap _file_scan_cache[key].names # {}
                                    /\ c[3] = "SKIP"
                                 THEN Idle
                                 ELSE Timer("add_to_existing", 0)
                   /\ UNCHANGED _file_scan_status
              ELSE IF Get(_file_scan_status, key) = "pending"
              THEN /\ main_pc' = Timer("add_to_existing", 0)
                   /\ UNCHANGED _file_scan_status
              ELSE /\ _file_scan_status' = (key :> "pending") @@ _file_scan_status
                   /\ main_pc' = Timer("execute.Thread.start", main_pc.arg)
    /\ api_calls' = Called("main", "scan_names_cached", {"os"})
    /\ UNCHANGED <<threads, spawned, nonExecuteVars>>

\* Thread.start() of scan_names_background, called in execute: the worker
\* runs, scan_names_cached returns set() and execute, with no conflicts,
\* goes on to add_to_existing; or start() raises and the exception ends
\* execute.
ExecuteThreadStart(ok) ==
    /\ main_pc.fn = "execute.Thread.start"
    /\ IF ok
       THEN /\ threads' = Started("worker", "load", ExecuteCall(main_pc.arg)[1])
            /\ spawned' = Counted("worker")
            /\ main_pc' = Timer("add_to_existing", 0)
       ELSE /\ main_pc' = Idle
            /\ UNCHANGED <<threads, spawned>>
    /\ UNCHANGED <<_file_scan_status, api_calls, nonExecuteVars>>

\* add_to_existing: bpy.data.libraries.write of the selection to a temporary
\* file, then start_background_process up to "with open(status_file, 'w')",
\* which empties the file; when one of them raises, CANCELLED.
AddToExisting(ok) ==
    /\ main_pc.fn = "add_to_existing"
    /\ IF ok
       THEN /\ status_file' = Truncated
            /\ main_pc' = Timer("start_background_process", 0)
       ELSE /\ main_pc' = Idle
            /\ UNCHANGED status_file
    /\ api_calls' = Called("main", "add_to_existing", {"bpy.data", "tempfile", "os"})
    /\ UNCHANGED <<proc, child, start_ok, starts, timers,
                   _update_state, _manual_check, _pending_timer,
                   _progress_timer_running, threads, spawned, _file_scan_status,
                   _file_scan_cache, file_mtime, online_access,
                   updater_state_json, check_log,
                   cleanVars, modVars, addonVars, cacheVars, panelVars, matVars>>

\* bpy.app.timers calls read_output, in registration order: the main thread
\* enters the loop over process.stdout.readline() ...
ReadOutputEnter(i) ==
    /\ main_pc = Idle
    /\ BagIn(Timer("read_output", i), timers)
    /\ \A j \in 1..(i - 1) : BgTimers(j) \cap BagToSet(timers) = {}
    /\ main_pc' = Timer("read_output", i)
    /\ UNCHANGED <<bgVars, timers, nonBgMainVars>>

\* ... which ends when process.poll() is not None; the function returns
\* None, which ends the timer.
ReadOutput(i) ==
    /\ main_pc = Timer("read_output", i)
    /\ proc[i] = "exited"
    /\ main_pc' = Idle
    /\ timers' = timers (-) SetToBag({Timer("read_output", i)})
    /\ UNCHANGED <<bgVars, nonBgMainVars>>

\* hasattr(self.check_process_status, "last_status"): a bound method forwards
\* attribute reads to its function, which has no such attribute.
method_hasattr_last_status == FALSE

\* check_process_status(self) on the status file f: whether the call raised,
\* the file afterwards, and the returned interval.  Setting last_status on the
\* bound method raises AttributeError, before the try block.
check_process_status(f) ==
    IF ~method_hasattr_last_status
    THEN [raised |-> TRUE, file |-> f, ret |-> "None"]
    ELSE IF f.state = "absent"
    THEN [raised |-> FALSE, file |-> f, ret |-> "None"]
    ELSE IF f.state = "json" /\ ~f.running
    THEN [raised |-> FALSE, file |-> NoFile, ret |-> "None"]
    ELSE [raised |-> FALSE, file |-> f, ret |-> "0.5"]

\* bpy.app.timers runs check_process_status after read_output, which was
\* registered first; a timer whose function raised or returned None is
\* removed.
CheckProcessStatus(i) ==
    LET r == check_process_status(status_file)
    IN  /\ main_pc = Idle
        /\ BagIn(Timer("check_process_status", i), timers)
        /\ ~BagIn(Timer("read_output", i), timers)
        /\ status_file' = r.file
        /\ timers' = IF r.raised \/ r.ret = "None"
                     THEN timers (-) SetToBag({Timer("check_process_status", i)})
                     ELSE timers
        /\ UNCHANGED <<proc, child, start_ok, starts, nonBgVars>>

\* update_status in the background script: open(status_file, 'w') truncates
\* the file ...
ChildOpenStatus(i) ==
    /\ proc[i] = "running"
    /\ ~child[i].writing
    /\ child[i].pc < Len(ChildStages)
    /\ status_file' = Truncated
    /\ child' = [child EXCEPT ![i].writing = TRUE,
                              ![i].content = ChildStages[child[i].pc + 1]]
    /\ UNCHANGED <<proc, start_ok, starts, timers, nonBgVars>>

\* ... and json.dump writes the status from the start of the file, with no
\* lock against the other writers of the file.  After the status "Complete"
\* or "Error: ..." the script and the process end.
ChildDumpStatus(i) ==
    /\ proc[i] = "running"
    /\ child[i].writing
    /\ status_file' = Dumped(status_file, child[i].content)
    /\ child' = [child EXCEPT ![i].writing = FALSE, ![i].pc = @ + 1]
    /\ proc' = [proc EXCEPT ![i] = IF child[i].content.running
                                   THEN "running" ELSE "exited"]
    /\ UNCHANGED <<start_ok, starts, timers, nonBgVars>>

\* process_assets raises between two status updates: its except clause
\* writes running False with the text of the exception.
ChildRaise(i, len) ==
    /\ proc[i] = "running"
    /\ ~child[i].writing
    /\ child[i].pc < Len(ChildStages)
    /\ status_file' = Truncated
    /\ child' = [child EXCEPT ![i].writing = TRUE,
                              ![i].content = ErrorJson(len)]
    /\ UNCHANGED <<proc, start_ok, starts, timers, nonBgVars>>

\* The background Blender is killed or crashes: nothing more is written.
ChildCrash(i) ==
    /\ proc[i] = "running"
    /\ proc' = [proc EXCEPT ![i] = "exited"]
    /\ UNCHANGED <<status_file, child, start_ok, starts, timers, nonBgVars>>

NextBg ==
    \/ \E via \in {"panel", "operator"} : StartBackgroundProcess(via)
    \/ \E ok \in BOOLEAN : StartBackgroundProcessDump(ok)
    \/ \E i \in 1..MaxStarts : ReadOutputEnter(i)
    \/ \E i \in 1..MaxStarts : ReadOutput(i)
    \/ \E i \in 1..MaxStarts : CheckProcessStatus(i)
    \/ \E i \in 1..MaxStarts : ChildOpenStatus(i)
    \/ \E i \in 1..MaxStarts : ChildDumpStatus(i)
    \/ \E i \in 1..MaxStarts, len \in ErrorLengths : ChildRaise(i, len)
    \/ \E i \in 1..MaxStarts : ChildCrash(i)

InitBg ==
    /\ BgAtRest /\ PanelAtRest /\ MatAtRest /\ CleanAtRest /\ ModulesAtImport /\ AddonAtRest
    /\ WorkersAtRest /\ CacheAtRest

\* The main thread goes on inside start_background_process, Blender runs its
\* due timers, and each background script keeps writing while its process
\* lives.
SpecBg ==
    /\ InitBg
    /\ [][NextBg]_vars
    /\ WF_vars(\E ok \in BOOLEAN : StartBackgroundProcessDump(ok))
    /\ WF_vars(\E i \in 1..MaxStarts : ReadOutputEnter(i))
    /\ WF_vars(\E i \in 1..MaxStarts : ReadOutput(i))
    /\ WF_vars(\E i \in 1..MaxStarts : CheckProcessStatus(i))
    /\ \A i \in 1..MaxStarts :
          WF_vars(ChildOpenStatus(i) \/ ChildDumpStatus(i))

\* Adding to a library file: the conflict scan and its worker threads, the
\* background process that runs to its end, and its timers.
NextLibrary ==
    \/ \E via \in {"panel", "operator"}, key \in ExecuteKeys, names \in Selections,
          conflict_action \in Range(ConflictActionSeq) :
          Execute(via, key, names, conflict_action)
    \/ ScanConflicts
    \/ ExecuteScanNamesCached
    \/ \E ok \in BOOLEAN : ExecuteThreadStart(ok)
    \/ \E ok \in BOOLEAN : AddToExisting(ok)
    \/ \E ok \in BOOLEAN : StartBackgroundProcessDump(ok)
    \/ \E t \in threads, status \in {"done", "error"} : ScanLoad(t, status)
    \/ \E t \in threads : ScanStore(t)
    \/ \E key \in ScanKeys, mtime \in 0..MaxMtime : TouchFile(key[1], mtime)
    \/ \E key \in ScanKeys : RemoveFile(key[1])
    \/ \E i \in 1..MaxStarts : ReadOutputEnter(i)
    \/ \E i \in 1..MaxStarts : ReadOutput(i)
    \/ \E i \in 1..MaxStarts : CheckProcessStatus(i)
    \/ \E i \in 1..MaxStarts : ChildOpenStatus(i)
    \/ \E i \in 1..MaxStarts : ChildDumpStatus(i)

SpecLibrary == InitBg /\ [][NextLibrary]_vars

(***************************************************************************)
(* FloatingPanel.py: the modal operator that splits an area, duplicates it *)
(* into a floating window and closes the split                             *)
(***************************************************************************)
\* Bounds on the areas of a window's screen, on the windows, and on the
\* invocations of qp.floating_panel and qp.floating_panel_simple.
MaxAreas == 3

MaxWindows == 3

MaxInvokes == 2

PanelEvents == {"TIMER", "MOUSEMOVE", "ESC"}

\* What a call of a bpy.ops.screen operator does: it returns {'FINISHED'},
\* it returns {'CANCELLED'} and leaves the screen alone, or it raises.
ApiOutcomes == {"FINISHED", "CANCELLED", "raised"}

\* The class attributes of QP_OT_FloatingPanel, which a new instance reads
\* until it sets its own; with the events the instance's modal() was called
\* with.
NewPanelOp ==
    [result |-> "", _step |-> 0, _timer |-> FALSE, _new_area_index |-> -1,
     _main_window |-> 0, timer_events |-> 0, event |-> ""]

\* _cleanup that leaves the timer in place.
no_cleanup(op) == op

\* QP_OT_FloatingPanel._cleanup: the event timer is removed, once.
_cleanup(op) == [op EXCEPT !._timer = FALSE]

\* _new_area_index < 0 or _new_area_index >= len(screen.areas), on the
\* screen of _main_window
area_missing(op, areas) ==
    op._new_area_index < 0 \/ op._new_area_index >= areas[op._main_window]

\* The instances whose modal handler is in the handlers of window w.
RunningIn(st, w) ==
    {i \in DOMAIN st.ops : st.ops[i].result = "RUNNING_MODAL"
                              /\ st.ops[i]._main_window = w}

\* invoke from a 3D View of window w, on a new operator instance.  When
\* screen.area_split raises, invoke returns CANCELLED; else, whether the
\* split made a new area or returned CANCELLED, it stores the index of the
\* last area, sets _step to 1, adds the timer and the modal handler and
\* returns RUNNING_MODAL, beside the instances that are running.
PanelInvoke(w, split) ==
    /\ w \in DOMAIN panel_op.areas
    /\ panel_op.invokes < MaxInvokes
    /\ split = "FINISHED" => panel_op.areas[w] < MaxAreas
    /\ \E n \in {IF split = "FINISHED" THEN panel_op.areas[w] + 1
                                        ELSE panel_op.areas[w]} :
          panel_op' =
              [panel_op EXCEPT
                  !.areas[w] = n,
                  !.invokes = @ + 1,
                  !.ops = Append(@,
                      IF split = "raised"
                      THEN [NewPanelOp EXCEPT !.result = "CANCELLED",
                                              !._main_window = w]
                      ELSE [NewPanelOp EXCEPT !.result = "RUNNING_MODAL",
                                              !._step = 1, !._timer = TRUE,
                                              !._new_area_index = n - 1,
                                              !._main_window = w])]
    /\ UNCHANGED nonPanelVars

\* _duplicate_area of instance i: CANCELLED after _cleanup when the area is
\* gone, FINISHED after _cleanup when screen.area_dupli raises, else _step 2,
\* with a new window of one area when area_dupli made one.
_duplicate_area(st, i, out) ==
    IF area_missing(st.ops[i], st.areas)
    THEN [st EXCEPT !.ops[i] = [_cleanup(@) EXCEPT !.result = "CANCELLED"]]
    ELSE IF out = "raised"
    THEN [st EXCEPT !.ops[i] = [_cleanup(@) EXCEPT !.result = "FINISHED"]]
    ELSE [st EXCEPT !.ops[i]._step = 2,
                    !.areas = IF out = "FINISHED" THEN Append(@, 1) ELSE @]

\* _configure_viewport: the new window, when there is one, is configured;
\* _step 3.
_configure_viewport(st, i) == [st EXCEPT !.ops[i]._step = 3]

\* _close_split_area: _cleanup first; then the split area is closed unless
\* it is gone, or screen.area_close returns CANCELLED or raises; FINISHED.
_close_split_area(st, i, out) ==
    LET c == [_cleanup(st.ops[i]) EXCEPT !.result = "FINISHED"]
    IN  IF area_missing(c, st.areas) \/ out # "FINISHED"
        THEN [st EXCEPT !.ops[i] = c]
        ELSE [st EXCEPT !.ops[i] = c, !.areas[c._main_window] = @ - 1]

\* modal(self, context, event) of instance i
modal(st, i, event, out) ==
    IF event # "TIMER" THEN st
    ELSE IF st.ops[i]._step = 1 THEN _duplicate_area(st, i, out)
    ELSE IF st.ops[i]._step = 2 THEN _configure_viewport(st, i)
    ELSE IF st.ops[i]._step = 3 THEN _close_split_area(st, i, out)
    ELSE st

\* Blender hands an event of window w to the window's modal handlers, the
\* newest first, from instance i on: a handler that returns PASS_THROUGH
\* passes the event on, and a TIMER event goes on to the next handler
\* whatever the handler returned.
RECURSIVE Dispatch(_, _, _, _, _)
Dispatch(st, i, w, event, outs) ==
    IF i = 0 THEN st
    ELSE Dispatch(IF i \in RunningIn(st, w)
                  THEN [modal(st, i, event, outs[i]) EXCEPT
                           !.ops[i].event = event,
                           !.ops[i].timer_events =
                               IF event = "TIMER" THEN @ + 1 ELSE @]
                  ELSE st,
                  i - 1, w, event, outs)

\* An event of window w, with the outcome of the screen operator that each
\* instance may call.
PanelEvent(w, event, outs) ==
    /\ RunningIn(panel_op, w) # {}
    /\ panel_op' = Dispatch(panel_op, Len(panel_op.ops), w, event, outs)
    /\ Len(panel_op'.areas) <= MaxWindows
    /\ UNCHANGED nonPanelVars

\* Blender ends a running operator (its window is closed, a file is
\* loaded): cancel() calls _cleanup.
PanelCancel(i) ==
    /\ i \in DOMAIN panel_op.ops
    /\ panel_op.ops[i].result = "RUNNING_MODAL"
    /\ panel_op' = [panel_op EXCEPT
                       !.ops[i] = [_cleanup(@) EXCEPT !.result = "CANCELLED"]]
    /\ UNCHANGED nonPanelVars

\* QP_OT_FloatingPanelSimple.execute: screen.area_dupli makes a window of
\* one area, or returns CANCELLED, and execute returns FINISHED; or it
\* raises, and execute returns CANCELLED.
PanelSimpleExecute(out) ==
    /\ panel_op.invokes < MaxInvokes
    /\ out = "FINISHED" => Len(panel_op.areas) < MaxWindows
    /\ panel_op' = [panel_op EXCEPT
                       !.simple = IF out = "raised" THEN "CANCELLED" ELSE "FINISHED",
                       !.areas = IF out = "FINISHED" THEN Append(@, 1) ELSE @,
                       !.invokes = @ + 1]
    /\ UNCHANGED nonPanelVars

\* Between two events of a window w in which an instance runs, the user
\* joins or splits areas of its screen.
PanelAreasChange(w, n) ==
    /\ RunningIn(panel_op, w) # {}
    /\ n # panel_op.areas[w]
    /\ panel_op' = [panel_op EXCEPT !.areas[w] = n]
    /\ UNCHANGED nonPanelVars

NextPanel ==
    \/ \E w \in 1..MaxWindows, split \in ApiOutcomes : PanelInvoke(w, split)
    \/ \E w \in 1..MaxWindows, event \in PanelEvents,
          outs \in [1..MaxInvokes -> ApiOutcomes] : PanelEvent(w, event, outs)
    \/ \E i \in 1..MaxInvokes : PanelCancel(i)
    \/ \E out \in ApiOutcomes : PanelSimpleExecute(out)
    \/ \E w \in 1..MaxWindows, n \in 1..MaxAreas : PanelAreasChange(w, n)

InitPanel ==
    /\ PanelAtRest /\ MatAtRest /\ CleanAtRest /\ ModulesAtImport /\ AddonAtRest
    /\ WorkersAtRest /\ BgAtRest /\ CacheAtRest

\* Blender delivers the events of a timer to its window while the timer
\* exists.
SpecPanel ==
    /\ InitPanel
    /\ [][NextPanel]_vars
    /\ \A w \in 1..MaxWindows :
          WF_vars(\E outs \in [1..MaxInvokes -> ApiOutcomes] :
                     PanelEvent(w, "TIMER", outs))

(***************************************************************************)
(* MaterialList.py: the materials referenced by a node group and by the    *)
(* node groups nested in it, with the module's cache                       *)
(***************************************************************************)
\* The node groups, in the order in which a group's group nodes are listed.
\* Each node group g has one Set Material node, with the material named g.
GroupOrder == <<"A", "B", "C">>

Groups == {GroupOrder[i] : i \in 1..Len(GroupOrder)}

\* Bounds on the group nodes of the graph and on the clock.
MaxEdges == 3

MaxTime == 2

\* The cache lifetime of 60 seconds, in ticks of 30 seconds.
_cache_lifetime == 2

RECURSIVE find_materials_in_node_group(_, _, _, _)

\* One pass of the loop over node_group.nodes, at the group node of g whose
\* node_tree is h, when g has one: a node with 'material' in its name takes
\* the first branch, which finds no material on a group node; any other
\* group node is searched recursively.
group_node(g, h, acc, t) ==
    IF <<g, h>> \notin ng_edges \/ <<g, h>> \in ng_named
    THEN acc
    ELSE LET r == find_materials_in_node_group(h, acc.cache, acc.processed, t)
         IN  [materials |-> acc.materials \cup r.materials,
              cache |-> r.cache, processed |-> r.processed]

\* find_materials_in_node_group(node_group, processed_groups) at time t with
\* the given cache entries: the returned set, and the cache and processed_groups as
\* the call leaves them.
find_materials_in_node_group(g, entries, processed, t) ==
    IF g \in DOMAIN entries /\ t - entries[g].timestamp < _cache_lifetime
    THEN [materials |-> entries[g].materials, cache |-> entries,
          processed |-> processed]
    ELSE IF g \in processed
    THEN [materials |-> {}, cache |-> entries, processed |-> processed]
    ELSE LET n0 == [materials |-> {g}, cache |-> entries,
                    processed |-> processed \cup {g}]
             n1 == group_node(g, GroupOrder[1], n0, t)
             n2 == group_node(g, GroupOrder[2], n1, t)
             n3 == group_node(g, GroupOrder[3], n2, t)
         IN  [materials |-> n3.materials,
              cache |-> (g :> [materials |-> n3.materials, timestamp |-> t])
                            @@ n3.cache,
              processed |-> n3.processed]

\* A caller (the panel's draw, the select operator) asks for the materials
\* of a modifier's node group.
FindMaterials(g) ==
    LET r == find_materials_in_node_group(g, _node_group_materials_cache, {}, now)
    IN  /\ _node_group_materials_cache' = r.cache
        /\ last_find' = [group |-> g, materials |-> r.materials]
        /\ UNCHANGED <<ng_edges, ng_named, now, nonMatVars>>

\* invalidate_node_group_cache / invalidate_material_caches
InvalidateNodeGroupCache ==
    /\ _node_group_materials_cache # [g \in {} |-> NoFind]
    /\ _node_group_materials_cache' = [g \in {} |-> NoFind]
    /\ UNCHANGED <<ng_edges, ng_named, now, last_find, nonMatVars>>

\* Half a minute passes.
Tick ==
    /\ now < MaxTime
    /\ now' = now + 1
    /\ UNCHANGED <<ng_edges, ng_named, _node_group_materials_cache, last_find,
                   nonMatVars>>

NextMaterials ==
    \/ \E g \in Groups : FindMaterials(g)
    \/ InvalidateNodeGroupCache
    \/ Tick

\* Any graph of group nodes, also one with shared or cyclically nested
\* groups; at most one group node has 'material' in its name.
InitMaterials ==
    /\ ng_edges \in {e \in SUBSET (Groups \X Groups) : Cardinality(e) <= MaxEdges}
    /\ ng_named \in {s \in SUBSET ng_edges : Cardinality(s) <= 1}
    /\ _node_group_materials_cache = [g \in {} |-> NoFind]
    /\ now = 0
    /\ last_find = NoFind
    /\ PanelAtRest /\ CleanAtRest /\ ModulesAtImport /\ AddonAtRest
    /\ WorkersAtRest /\ BgAtRest /\ CacheAtRest

SpecMaterials == InitMaterials /\ [][NextMaterials]_vars

(***************************************************************************)
(* asset_cache.py: loading and saving the asset cache file                 *)
(***************************************************************************)
CacheKeys == {"timestamp", "libraries"}

\* The strings told apart inside a JSON value: the two keys that
\* load_asset_cache looks for, and "assets" for everything else.
JsonKeys == CacheKeys \cup {"assets"}

\* The values json.load can produce from the cache file.
JsonValues ==
    {JsonValue(t, ks) : t \in {"dict", "list", "str"}, ks \in SUBSET JsonKeys}
        \cup {JsonValue("int", {}), JsonValue("int", {"nonzero"}), None}

\* The states of the cache file: missing, not readable, not JSON, or JSON.
CacheFiles ==
    {[state |-> st, value |-> None] : st \in {"missing", "unreadable", "invalid"}}
        \cup {[state |-> "json", value |-> v] : v \in JsonValues}

\* The outcome of a Python expression: a value, or an exception.
Value(v) == [raised |-> FALSE, value |-> v]

Raise == [raised |-> TRUE, value |-> None]

\* Python's truth test: an empty container, a zero and None are false, and
\* every other value is true.
bool(v) == v.items # {}

\* `a or b`
py_or(a, b) == IF bool(a) THEN a ELSE b

\* `key not in v`: TypeError when v is not a container.
py_not_in(key, v) ==
    IF v.type \in {"dict", "list", "str"}
    THEN [raised |-> FALSE, truth |-> key \notin v.items]
    ELSE [raised |-> TRUE, truth |-> FALSE]

\* `v[key] = ...` with a string key: only a dict accepts it.
py_setitem(v, key) ==
    IF v.type = "dict" THEN Value(JsonValue("dict", v.items \cup {key}))
    ELSE Raise

\* safe_load_json(filepath, default): the parsed file, or `default or {}`
\* when the file is missing or open/json.load raised.
safe_load_json(f, default) ==
    IF f.state = "json" THEN f.value ELSE py_or(default, JsonValue("dict", {}))

\* `if key not in cache: cache[key] = ...`, after the outcome r.
ensure_key(r, key) ==
    IF r.raised THEN r
    ELSE LET t == py_not_in(key, r.value)
         IN  IF t.raised THEN Raise
             ELSE IF t.truth THEN py_setitem(r.value, key)
             ELSE r

load_asset_cache(f) ==
    LET loaded == safe_load_json(f, JsonValue("dict", CacheKeys))
    IN  ensure_key(ensure_key(Value(loaded), "timestamp"), "libraries")

\* save_asset_cache(cache): stamps the cache and writes it through a
\* temporary file; safe_save_json returns False when that fails.
save_asset_cache(f, c, ok) ==
    LET stamped == py_setitem(c, "timestamp")
    IN  IF stamped.raised THEN [raised |-> TRUE, file |-> f, cache |-> c]
        ELSE [raised |-> FALSE,
              file |-> IF ok THEN [state |-> "json", value |-> stamped.value]
                       ELSE f,
              cache |-> stamped.value]

InitCache ==
    /\ cache_file \in CacheFiles
    /\ cache_call = "none"
    /\ cache = None
    /\ CleanAtRest /\ ModulesAtImport /\ AddonAtRest /\ WorkersAtRest
    /\ BgAtRest /\ PanelAtRest /\ MatAtRest

LoadAssetCache ==
    LET r == load_asset_cache(cache_file)
    IN  /\ cache_call' = IF r.raised THEN "raised" ELSE "returned"
        /\ cache' = r.value
        /\ UNCHANGED <<cache_file, nonCacheVars>>

\* The callers save the cache they loaded.
SaveAssetCache(ok) ==
    LET r == save_asset_cache(cache_file, cache, ok)
    IN  /\ cache_call = "returned"
        /\ ~r.raised
        /\ cache_file' = r.file
        /\ cache' = r.cache
        /\ UNCHANGED <<cache_call, nonCacheVars>>

\* The file in the user's configuration directory is removed, protected or
\* rewritten outside the add-on.
CacheFileChanged(f) ==
    /\ cache_file # f
    /\ cache_file' = f
    /\ UNCHANGED <<cache_call, cache, nonCacheVars>>

NextCache ==
    \/ LoadAssetCache
    \/ \E ok \in BOOLEAN : SaveAssetCache(ok)
    \/ \E f \in CacheFiles : CacheFileChanged(f)

SpecCache == InitCache /\ [][NextCache]_vars

Init ==
    /\ InitClean /\ AddonAtRest /\ WorkersAtRest
    /\ \E cleanup_enabled \in BOOLEAN :
          mods = [n \in HelperModules |-> ModuleAtImport(n, cleanup_enabled)]
    /\ call = NoCall
    /\ BgAtRest /\ PanelAtRest /\ MatAtRest /\ CacheAtRest

Next == NextClean

Spec == Init /\ [][Next]_vars

(***************************************************************************)
(* Properties of the cleanup operators                                     *)
(***************************************************************************)
Ids(coll) == {coll[k].id : k \in DOMAIN coll}

Removed == {log[k].item.id : k \in DOMAIN log}

SameBase(a, b) == get_base_name(a.name) = get_base_name(b.name)

\* C1: when a cleanup operator removes a datablock, no consumer refers to it
\* any more when remove() is called: each consumer that referred to it has
\* been re-pointed to the kept datablock, and after the operator has finished
\* every consumer refers to a datablock that is still in the collection.
C1_RemappedBeforeRemove ==
    lastExec # "none" =>
        /\ \A k \in DOMAIN log : log[k].dangling = {}
        /\ \A u \in users : u.ref \in Ids(data)
        /\ \A u \in users : \A k \in DOMAIN log :
              (\E w \in preUsers : w.uid = u.uid /\ w.ref = log[k].item.id)
                  => u.ref = log[k].target.id

\* C2: the AUTO_CLEAN path and the no-dialog standard path remove a datablock
\* only if it is local, shares its base name with the datablock kept in its
\* place and is identical to it by the comparison of its type; the kept one
\* stays, and a datablock that no other datablock of its base name is
\* identical to survives.
C2_AutoCleanRemovesOnlyIdentical ==
    lastExec \in {"AUTO_CLEAN", "STANDARD"} =>
        /\ \A k \in DOMAIN log :
              /\ log[k].item.lib = 0
              /\ SameBase(log[k].item, log[k].target)
              /\ are_items_identical_by_type(log[k].item, log[k].target, dtype, preUsers)
              /\ log[k].target.id \in Ids(data)
        /\ Ids(pre) \ Ids(data) = Removed
        /\ \A i \in DOMAIN pre :
              (\A j \in DOMAIN pre :
                  (j # i /\ SameBase(pre[i], pre[j]))
                      => ~are_items_identical_by_type(pre[i], pre[j], dtype, preUsers))
                  => pre[i].id \in Ids(data)

\* AUTO_CLEAN removed a duplicate while a datablock of the same base name and
\* another content was in the collection.
C2_Witness ==
    /\ lastExec = "AUTO_CLEAN"
    /\ log # <<>>
    /\ \E i \in DOMAIN pre :
          /\ SameBase(pre[i], log[1].item)
          /\ ~are_items_identical_by_type(pre[i], log[1].item, dtype, preUsers)
          /\ pre[i].id \in Ids(data)

LinkedIn(coll) == {coll[k] : k \in {j \in DOMAIN coll : coll[j].lib # 0}}

\* C3: no execution path removes a library-linked datablock: the linked
\* datablocks of the collection are those there were when the execution began.
C3_LinkedNeverRemoved == LinkedIn(data) = LinkedIn(pre)

\* An execution removed a local datablock whose base name a linked datablock
\* shares.
C3_Witness ==
    /\ lastExec # "none"
    /\ log # <<>>
    /\ \E d \in LinkedIn(pre) : SameBase(d, log[1].item)

\* The name an unskipped conflict of the Choose Data path is resolved to: the
\* recorded selection, the first local datablock when nothing was clicked.
ChosenName(base) ==
    IF base \in DOMAIN preSel THEN preSel[base]
    ELSE LocalItems(ItemsOfBase(pre, base))[1].name

\* After an execution: of every conflict that was not skipped and had two
\* local datablocks or more exactly one local datablock is left, the selected
\* one, and every other local one was remapped to it and removed.
ChosenKept ==
        \A k \in DOMAIN preConflicts :
            LET base   == preConflicts[k].base_name
                before == LocalItems(ItemsOfBase(pre, base))
                after  == LocalItems(ItemsOfBase(data, base))
            IN  (~preConflicts[k].skip_this_conflict /\ Len(before) >= 2) =>
                    /\ Len(after) = 1
                    /\ after[1].name = ChosenName(base)
                    /\ \A j \in DOMAIN before :
                          before[j].name # ChosenName(base) =>
                              \E e \in DOMAIN log :
                                  /\ log[e].item = before[j]
                                  /\ log[e].target.name = ChosenName(base)
                                  /\ log[e].target.lib = 0

\* C4: when the dialog is confirmed with CHOOSE_DATA, of every conflict that
\* is not skipped and has two local datablocks or more exactly one local
\* datablock is left afterwards, the selected one (the first local one when
\* nothing was clicked), and every other local one was remapped to it and
\* removed.
C4_ChooseDataKeepsSelected ==
    [][(phase = "dialog" /\ lastExec' = "CHOOSE_DATA") => ChosenKept']_vars

\* C9: when an execution reads _conflict_selections, no key recorded by an
\* earlier invocation is present in it.
C9_SelectionsScopedToInvocation == selRead => staleAtRead = {}

\* The Choose Data path read the selections in an invocation that began with
\* selections of an earlier invocation still stored.
C9_Witness == selRead /\ priorSel /\ lastExec = "CHOOSE_DATA"

(***************************************************************************)
(* Properties of ModuleManager                                             *)
(***************************************************************************)
\* The module was registered before the last call.
WasRegistered ==
    hasattr(call.before[call.name], "_is_registered")
        /\ call.before[call.name]["_is_registered"]

WasEnabled ==
    hasattr(call.before[call.name], "module_enabled")
        /\ call.before[call.name]["module_enabled"]

\* C5: with the default skip flags and module_enabled True, register_module
\* returns True exactly when the module was not registered before the call
\* and leaves it registered, unregister_module returns True exactly when it
\* was registered and leaves it unregistered, and a repeated register or a
\* repeated unregister returns False and changes nothing.
C5_RegistrationIdempotent ==
    (call.op # "none" /\ call.skip /\ WasEnabled) =>
        /\ call.op = "register" =>
              /\ call.ret = ~WasRegistered
              /\ mods[call.name]["_is_registered"]
              /\ WasRegistered => (~call.ret /\ mods = call.before)
        /\ call.op = "unregister" =>
              /\ call.ret = WasRegistered
              /\ ~mods[call.name]["_is_registered"]
              /\ (hasattr(call.before[call.name], "_is_registered") /\ ~WasRegistered)
                    => (~call.ret /\ mods = call.before)

\* register_module was called, with the default flag, on an enabled module
\* that was registered already.
C5_Witness ==
    /\ call.op = "register"
    /\ call.skip
    /\ WasEnabled
    /\ WasRegistered

(***************************************************************************)
(* Properties of the add-on's registration                                 *)
(***************************************************************************)
\* C6: after the add-on's register() followed by its unregister(), no class
\* and no handler of the add-on is registered in Blender and no property of
\* the add-on is left on bpy.types.Scene.
C6_TeardownSymmetric ==
    addon_state = "unregistered" =>
        /\ bl_classes = {}
        /\ bl_handlers = {}
        /\ {p \in bl_props : p[1] = "Scene"} = {}

(***************************************************************************)
(* Properties of the worker threads                                        *)
(***************************************************************************)
\* C7: no call made in a worker thread (update check, update download,
\* asset-name scan) goes into Blender's data API (bpy.data) or replaces the
\* files of the add-on's directory.
C7_WorkersKeepOffBlenderData ==
    \A c \in api_calls :
        c.thread = "worker" => c.api \notin {"bpy.data", "addon_dir"}


\* C8: after start_background_process has returned True, the monitoring timer
\* stays registered while the process runs and the status file reports
\* running, and once the process has ended (normally, with an error, or by
\* crashing) the timer eventually stops and is_background_process_running()
\* returns False.
C8_MonitorFollowsProcess ==
    /\ [](start_ok /\ proc[starts] = "running"
             /\ is_background_process_running(status_file)
          => MonitorRegistered)
    /\ (start_ok /\ proc[starts] = "exited")
          ~> (~MonitorRegistered /\ ~is_background_process_running(status_file))

\* C10: load_asset_cache never raises and always returns a dict that holds
\* the keys "timestamp" and "libraries", whatever the cache file holds.
C10_LoadAlwaysReturnsCacheDict ==
    cache_call # "none" =>
        /\ cache_call = "returned"
        /\ cache.type = "dict"
        /\ CacheKeys \subseteq cache.items

\* The '<module>_enabled' property of each module that has one in
\* QP_Tools_Preferences.
module_toggle ==
    [EdgeSelect |-> "edge_select_enabled",
     CollectionOffset |-> "collection_offset_enabled",
     BevelWeight |-> "bevel_weight_enabled",
     FloatingPanel |-> "floating_panel_enabled",
     LatticeSetup |-> "lattice_setup_enabled",
     MaterialList |-> "materiallist_enabled",
     CleanUp |-> "cleanup_enabled",
     LinkNodeGroups |-> "link_node_groups_enabled",
     TextureSet_builder |-> "texture_set_builder_enabled",
     Project_Box_Flat |-> "project_box_flat_enabled",
     quick_asset_library |-> "quick_asset_library_enabled",
     qp_tools_pie_menu |-> "qp_tools_pie_menu_enabled",
     asset_browser_pie |-> "asset_browser_pie_enabled",
     pie_menu_builder |-> "pie_menu_builder_enabled"]

\* C11: at add-on registration the register() of a module that has a
\* '<module>_enabled' toggle is called only if that toggle is True.
C11_RegisterRespectsToggles ==
    \A n \in DOMAIN module_toggle :
        n \in register_calls => prefs_at_register[module_toggle[n]]

\* The update-check threads that are running.
CheckThreads == {t \in threads : t.target = "_do_check"}

\* C12: at most one update-check thread (_do_check) runs at any time.
C12_OneCheckThread == Cardinality(CheckThreads) <= 1

\* The downloads that are running and the installations that are pending or
\* running.
Downloads == {t \in threads : t.target = "_download_addon"}

Installs == {tm \in BagToSet(timers) : tm.fn = "_install_callback"}

\* C13: at most one download-or-install of the add-on is in progress at any
\* time, for any sequence of qp.update_addon and qp.check_updates.
C13_OneDownloadOrInstall == Cardinality(Downloads) + Cardinality(Installs) <= 1

\* One step of download_status: 'installing' is entered only from
\* 'downloading', and 'done' only from 'installing'.
DownloadStatusStep ==
    LET old == _update_state.download_status
        new == _update_state'.download_status
    IN  /\ (new = "installing" /\ old # "installing") => old = "downloading"
        /\ (new = "done" /\ old # "done") => old = "installing"

\* C14: download_status enters 'installing' only from 'downloading' and
\* 'done' only from 'installing', and whenever it is 'done'
\* addon_update_available is False.
C14_DownloadStatusPath ==
    /\ [][DownloadStatusStep]_vars
    /\ [](_update_state.download_status = "done"
             => ~_update_state.addon_update_available)

\* C15: once version V has been dismissed, an automatic check that finds V
\* again leaves the notification dismissed (in the preferences and in the
\* sidebar), while a manual check, or a check that finds another newer
\* version, makes it visible again.
C15_DismissalPersists ==
    check_log.found # "" =>
        LET prefs_notice   == ~check_log.addon_dismissed
            sidebar_notice == /\ check_log.dismissed # NotADict
                              /\ check_log.found # check_log.dismissed
        IN  IF check_log.by = "auto" /\ check_log.found = check_log.dismissed
            THEN ~prefs_notice /\ ~sidebar_notice
            ELSE prefs_notice /\ sidebar_notice

\* C16: at most one background asset-writing Blender process is running at
\* any time, however ASSET_OT_add_to_library is invoked.
C16_OneBackgroundProcess == Cardinality(Running) <= 1

\* C17: with conflict_action = SKIP, an execute that adds to an existing
\* library file a datablock whose name already exists in that file never
\* starts the background write: it returns CANCELLED, without entering
\* start_background_process.
C17_SkipNeverWritesConflict ==
    [][\A c \in ExecuteCalls :
          (/\ main_pc.fn \in {"scan_names_cached", "execute.Thread.start"}
           /\ ExecuteCall(main_pc.arg) = c
           /\ c[3] = "SKIP"
           /\ c[2] \cap FileNames # {}
           /\ file_mtime[c[1]] # Missing)
              => main_pc'.fn # "add_to_existing"]_vars

ScanWorkers(key) == {t \in threads : t.target = "worker" /\ t.arg = key}

\* C18: for each (filepath, data_type) key at most one name-scan worker
\* thread is running at any time.
C18_OneScanWorkerPerKey ==
    \A key \in ScanKeys : Cardinality(ScanWorkers(key)) <= 1

\* A key is scanned for the second time, after its file changed, while the
\* worker of the other key runs too.
C18_Witness ==
    \E key \in ScanKeys :
        /\ key \in DOMAIN _file_scan_cache
        /\ ScanWorkers(key) # {}
        /\ \E other \in ScanKeys \ {key} : ScanWorkers(other) # {}

\* C19: every name scan that is started (its worker thread runs and the
\* status of its key is "pending") eventually leaves the "pending" state,
\* also when the file cannot be read or disappears during the scan.
C19_ScanLeavesPending ==
    \A key \in ScanKeys :
        (Get(_file_scan_status, key) = "pending" /\ ScanWorkers(key) # {})
            ~> (Get(_file_scan_status, key) # "pending")

\* In this step modal() of instance i was called with a TIMER event, or with
\* an event of another type than the one before.
HandledTimer(i) ==
    panel_op'.ops[i].timer_events = panel_op.ops[i].timer_events + 1

HandledOther(i) ==
    /\ panel_op'.ops[i].timer_events = panel_op.ops[i].timer_events
    /\ panel_op'.ops[i].event # panel_op.ops[i].event

\* C20: after a successful invoke the floating-panel modal operator advances
\* exactly one step per TIMER event in the order duplicate, configure, close;
\* it passes every other event through without changing its step; it has
\* terminated by the third TIMER event; and on every terminating path its
\* timer has been removed.
C20_PanelStepsPerTimer ==
    /\ [][\A i \in DOMAIN panel_op.ops :
            /\ HandledTimer(i) =>
                  \/ /\ panel_op'.ops[i].result = "RUNNING_MODAL"
                     /\ panel_op'.ops[i]._step = panel_op.ops[i]._step + 1
                  \/ panel_op'.ops[i].result \in {"FINISHED", "CANCELLED"}
            /\ HandledOther(i) =>
                  /\ panel_op'.ops[i].result = "RUNNING_MODAL"
                  /\ panel_op'.ops[i]._step = panel_op.ops[i]._step
                  /\ panel_op'.ops[i]._timer = panel_op.ops[i]._timer]_vars
    /\ [](\A i \in DOMAIN panel_op.ops :
             panel_op.ops[i].result = "RUNNING_MODAL" =>
                 /\ panel_op.ops[i].timer_events <= 2
                 /\ panel_op.ops[i]._step = panel_op.ops[i].timer_events + 1
                 /\ panel_op.ops[i]._timer)
    /\ [](\A i \in DOMAIN panel_op.ops :
             panel_op.ops[i].result \in {"FINISHED", "CANCELLED"}
                 => ~panel_op.ops[i]._timer)
    /\ \A i \in 1..MaxInvokes :
          (i \in DOMAIN panel_op.ops /\ panel_op.ops[i].result = "RUNNING_MODAL")
              ~> ~(i \in DOMAIN panel_op.ops /\ panel_op.ops[i].result = "RUNNING_MODAL")

\* An instance went through its three steps, with another event in between,
\* and finished on its third TIMER event while a second instance, invoked
\* after it, is running.
C20_Witness ==
    /\ Len(panel_op.ops) = 2
    /\ panel_op.ops[1].result = "FINISHED"
    /\ panel_op.ops[1].timer_events = 3
    /\ panel_op.ops[1]._step = 3
    /\ panel_op.ops[2].result = "RUNNING_MODAL"
    /\ panel_op.ops[2].event = "MOUSEMOVE"

\* The node groups nested in g at any depth, g included.
RECURSIVE Nested(_, _)
Nested(seen, k) ==
    IF k = 0 THEN seen
    ELSE Nested(seen \cup {e[2] : e \in {d \in ng_edges : d[1] \in seen}}, k - 1)

\* C21: for a node-group graph that does not change,
\* find_materials_in_node_group(g) returns every material referenced in g or
\* in a node group nested in g at any depth, for every order of calls, also
\* when a call is answered from the cache and when groups are shared by
\* several parents or nested cyclically.
C21_FindsAllNestedMaterials ==
    last_find.group # "" =>
        last_find.materials = Nested({last_find.group}, Cardinality(Groups))

====
